---- MODULE Spec2Model ----
(***************************************************************************)
(* Dataset ingestion and query service of dds_glossary.                    *)
(*                                                                         *)
(* The model follows GlossaryController (services.py): init_datasets       *)
(* re-initialises the engine, then fetches, parses and saves each          *)
(* configured dataset, collecting saved and failed records; the query      *)
(* operations read the graph and map a missing row to a typed 404.         *)
(* The relational schema (primary and foreign keys) is that of model.py    *)
(* and of the initial migration.                                           *)
(***************************************************************************)
EXTENDS Integers, Sequences, FiniteSets, Bags, TLC

VARIABLES
    datasets,          \* GlossaryController.datasets (class-level list)
    db,                \* the committed rows of the database behind the engine
    pc,                \* position of the init_datasets call
    reload,            \* the reload argument of the running / last call
    idx,               \* loop position in `for dataset in self.datasets`
    saved_datasets,    \* local list of init_datasets, then its response
    failed_datasets,   \* local list of init_datasets, then its response
    stages,            \* log: how each dataset of the call ended
    graph_at_call,     \* log: the rows committed when the call started
    response,          \* the last response of the query service
    in_call,           \* log: that response was served while the call ran
    xml_root,          \* xml.py: the root of the dataset file being parsed
    parsed_dataset,    \* xml.py: what parse_dataset returned for it
    concepts_table,    \* the stored concepts with their label columns
    search_response,   \* the last response of search_database
    looked,            \* the last label lookup and what it returned
    environ,           \* os.environ: the API_KEY entry
    settings_cache,    \* the lru_cache of get_settings
    auth_response,     \* the last reply to a POST /init_datasets request
    in_scheme_table,   \* the rows of the table in_scheme, as a bag
    in_collection_table, \* the rows of the table in_collection, as a bag
    edges_saved,       \* how the last insertion of edges ended
    database_server,   \* the databases of the server, by URL
    database_environ,  \* os.environ: the DATABASE_URL entry
    engine_result,     \* the last init_engine call and how it ended
    files,             \* the file system: the bytes at each path
    fetch_result,      \* the last get_file_from_url call and how it ended
    xml_element,       \* xml.py: the element handed to the extractors
    extracted,         \* xml.py: what the extractors returned for a tag
    scheme_db,         \* database.py: the committed rows of its three tables
    scheme_saved,      \* the last save_concept_scheme_file call
    alt_labels,        \* the altLabels column of the table concepts, by iri
    revision,          \* the alembic revision the database is at
    migrated,          \* log: the last migration step and the column before
    graph,             \* the Neo4j instance: its nodes and its edges
    neo_loaded         \* log: what the last load_services_dataset parsed

\* the variables of the controller and of its query service
controller_vars ==
    <<datasets, db, pc, reload, idx, saved_datasets, failed_datasets, stages,
      graph_at_call, response, in_call>>

\* the variables of the xml.py parser
parse_vars == <<xml_root, parsed_dataset>>

\* the variables of the label lookups and of the search
label_vars == <<concepts_table, search_response, looked>>

\* the variables of the API key check
auth_vars == <<environ, settings_cache, auth_response>>

\* the two association tables on their own
edge_vars == <<in_scheme_table, in_collection_table, edges_saved>>

\* the variables of the parts that are modelled on their own
\* the database server init_engine works on
engine_vars == <<database_server, database_environ, engine_result>>

\* the file system get_file_from_url writes to
fetch_vars == <<files, fetch_result>>

\* the extractors of xml.py on one element
extract_vars == <<xml_element, extracted>>

\* the tables of database.py
scheme_vars == <<scheme_db, scheme_saved>>

\* the altLabels migration
migration_vars == <<alt_labels, revision, migrated>>

\* the Neo4j import
neo_vars == <<graph, neo_loaded>>

tool_vars ==
    <<edge_vars, engine_vars, fetch_vars, extract_vars, scheme_vars,
      migration_vars, neo_vars>>

\* the variables of the service
service_vars == <<controller_vars, parse_vars, label_vars, auth_vars>>

vars == <<datasets, db, pc, reload, idx, saved_datasets, failed_datasets,
          stages, graph_at_call, response, in_call, xml_root, parsed_dataset,
          concepts_table, search_response, looked, environ, settings_cache,
          auth_response, in_scheme_table, in_collection_table, edges_saved,
          database_server, database_environ, engine_result, files,
          fetch_result, xml_element, extracted, scheme_db, scheme_saved,
          alt_labels, revision, migrated, graph, neo_loaded>>

----------------------------------------------------------------------------
(* Bounds of the model *)

\* longest configured dataset list
MaxDatasets == 2

----------------------------------------------------------------------------
(* Generic helpers *)

Range(s) == {s[i] : i \in 1..Len(s)}

RECURSIVE Perms(_)
Perms(S) ==
    IF S = {} THEN {<<>>}
    ELSE UNION {{<<x>> \o p : p \in Perms(S \ {x})} : x \in S}

MapSeq(F(_), s) == [i \in 1..Len(s) |-> F(s[i])]

RECURSIVE SetToSeq(_)
SetToSeq(S) ==
    IF S = {} THEN <<>>
    ELSE LET x == CHOOSE y \in S : TRUE IN <<x>> \o SetToSeq(S \ {x})

RECURSIVE Flatten(_)
Flatten(ss) == IF ss = <<>> THEN <<>> ELSE Head(ss) \o Flatten(Tail(ss))

\* positions i < j holding equal values
HasDuplicates(s) ==
    \E i, j \in 1..Len(s) : i < j /\ s[i] = s[j]

SeqsUpTo(S, n) == UNION {[1..k -> S] : k \in 0..n}

----------------------------------------------------------------------------
(* enums.py *)

MemberType == [CONCEPT |-> "concept", COLLECTION |-> "collection"]

SemanticRelationType ==
    <<"broader", "narrower", "related", "broaderTransitive",
      "narrowerTransitive">>

----------------------------------------------------------------------------
(* The source documents behind the configured URLs.  An element is a      *)
(* top-level rdf element: its tag, its rdf:about and its children that    *)
(* carry an rdf:resource, in document order.                              *)

El(tag, about, children) ==
    [tag |-> tag, about |-> about, children |-> children]

Ch(tag, resource) == [tag |-> tag, resource |-> resource]

\* one scheme, two concepts with a broader link, and a collection holding a
\* concept and a nested collection
SampleRdf ==
    { El("ConceptScheme", "s1", <<>>),
      El("Concept", "a", <<Ch("inScheme", "s1"), Ch("broader", "b")>>),
      El("Concept", "b", <<Ch("inScheme", "s1")>>),
      El("Collection", "c1",
         <<Ch("inScheme", "s1"), Ch("member", "a"), Ch("member", "c2")>>),
      El("Collection", "c2", <<Ch("inScheme", "s1")>>) }

\* a scheme with two collections, one of external IRIs only and one empty,
\* and a collection naming an external IRI and a member of the sample
ExternRdf ==
    { El("ConceptScheme", "s2", <<>>),
      El("Collection", "c3",
         <<Ch("inScheme", "s2"), Ch("member", "x"), Ch("member", "y")>>),
      El("Collection", "c4", <<Ch("inScheme", "s2")>>),
      El("Collection", "c5",
         <<Ch("inScheme", "s0"), Ch("member", "a"), Ch("member", "x")>>) }

\* two relations between the same ordered pair that differ in type only
TypedRdf ==
    { El("Concept", "e", <<Ch("broader", "f"), Ch("related", "f")>>),
      El("Concept", "f", <<>>) }

\* a relation whose target is declared nowhere
DanglingRdf ==
    { El("ConceptScheme", "s3", <<>>),
      El("Concept", "g", <<Ch("inScheme", "s3"), Ch("narrower", "z")>>) }

Dataset(name, url) == [name |-> name, url |-> url]

Catalogue ==
    { Dataset("sample.rdf", "u/sample"), Dataset("extern.rdf", "u/extern"),
      Dataset("typed.rdf", "u/typed"), Dataset("dangling.rdf", "u/dangling") }

Source(url) ==
    CASE url = "u/sample" -> SampleRdf
      [] url = "u/extern" -> ExternRdf
      [] url = "u/typed" -> TypedRdf
      [] url = "u/dangling" -> DanglingRdf

\* IRIs a request can ask for: a scheme and the two concepts of the sample,
\* a collection of the second document, and one that no document declares
QueryIris == {"s1", "a", "b", "c3", "x"}

----------------------------------------------------------------------------
(* xml.py: element extractors *)

get_element_attribute(element, attribute, default_value) ==
    IF attribute \in DOMAIN element THEN element[attribute] ELSE default_value

get_sub_element_attributes(element, tag, attribute, default_value) ==
    MapSeq(LAMBDA sub_element :
               get_element_attribute(sub_element, attribute, default_value),
           SelectSeq(element.children, LAMBDA c : c.tag = tag))

----------------------------------------------------------------------------
(* model.py: construction of the entities from the elements *)

ConceptScheme_from_xml_element(element) ==
    [iri |-> get_element_attribute(element, "about", "")]

Member_get_concept_schemes(element, concept_schemes) ==
    LET scheme_iris ==
            get_sub_element_attributes(element, "inScheme", "resource", "")
    IN  SelectSeq(concept_schemes,
                  LAMBDA concept_scheme :
                      concept_scheme.iri \in Range(scheme_iris))

\* variant: only the first skos:member child is read (find, not findall)
Collection_from_xml_first_member(element, concept_schemes) ==
    LET member_iris ==
            get_sub_element_attributes(element, "member", "resource", "")
    IN  [iri |-> get_element_attribute(element, "about", ""),
         member_type |-> MemberType.COLLECTION,
         concept_schemes |-> Member_get_concept_schemes(element, concept_schemes),
         member_iris |-> SubSeq(member_iris, 1, IF member_iris = <<>> THEN 0 ELSE 1)]

Collection_from_xml_element(element, concept_schemes) ==
    [iri |-> get_element_attribute(element, "about", ""),
     member_type |-> MemberType.COLLECTION,
     concept_schemes |-> Member_get_concept_schemes(element, concept_schemes),
     member_iris |->
         get_sub_element_attributes(element, "member", "resource", "")]

Concept_from_xml_element(element, concept_schemes) ==
    [iri |-> get_element_attribute(element, "about", ""),
     member_type |-> MemberType.CONCEPT,
     concept_schemes |-> Member_get_concept_schemes(element, concept_schemes)]

\* variant: every referenced IRI becomes a member, stored or not
resolve_members_unfiltered(self, members) ==
    MapSeq(LAMBDA iri : [iri |-> iri, member_type |-> MemberType.CONCEPT],
           self.member_iris)

\* Collection.resolve_members_from_xml: the value assigned to self.members
resolve_members_from_xml(self, members) ==
    SelectSeq(members, LAMBDA member : member.iri \in Range(self.member_iris))

SemanticRelation_from_xml_element(element) ==
    Flatten(MapSeq(
        LAMBDA relation_type :
            MapSeq(LAMBDA target_concept_iri :
                       [type |-> relation_type,
                        source_concept_iri |->
                            get_element_attribute(element, "about", ""),
                        target_concept_iri |-> target_concept_iri],
                   get_sub_element_attributes(element, relation_type,
                                              "resource", "")),
        SemanticRelationType))

----------------------------------------------------------------------------
(* services.py: GlossaryController.parse_dataset *)

parse_dataset(root) ==
    LET concept_scheme_elements ==
            SelectSeq(root, LAMBDA e : e.tag = "ConceptScheme")
        collection_elements == SelectSeq(root, LAMBDA e : e.tag = "Collection")
        concept_elements == SelectSeq(root, LAMBDA e : e.tag = "Concept")
        concept_schemes ==
            MapSeq(ConceptScheme_from_xml_element, concept_scheme_elements)
    IN  [concept_schemes |-> concept_schemes,
         concepts |->
             MapSeq(LAMBDA e : Concept_from_xml_element(e, concept_schemes),
                    concept_elements),
         collections |->
             MapSeq(LAMBDA e : Collection_from_xml_element(e, concept_schemes),
                    collection_elements),
         semantic_relations |->
             Flatten(MapSeq(SemanticRelation_from_xml_element,
                            concept_elements))]

----------------------------------------------------------------------------
(* model.py and the initial migration: tables, primary and foreign keys *)

EmptyDb ==
    [concept_schemes |-> {}, collection_members |-> {}, in_scheme |-> {},
     in_collection |-> {}, semantic_relations |-> {}]

Iris(rows) == {row.iri : row \in rows}

\* rows of the joined tables `concepts` and `collections`
ConceptIris(d) ==
    Iris({m \in d.collection_members : m.member_type = MemberType.CONCEPT})

CollectionIris(d) ==
    Iris({m \in d.collection_members : m.member_type = MemberType.COLLECTION})

\* primary key of semantic_relations
SemanticRelation_key(relation) ==
    <<relation.source_concept_iri, relation.target_concept_iri>>

\* primary key of in_scheme
in_scheme_key(row) == <<row.scheme_iri, row.member_iri>>

\* primary key of in_collection
in_collection_key(row) == <<row.collection_iri, row.member_iri>>

\* variant: tables without primary keys
PrimaryKeyUnchecked(new_keys, stored_keys) == FALSE

\* a batch of new rows breaks a primary key: a key twice in the batch, or a
\* key already stored
PrimaryKeyViolated(new_keys, stored_keys) ==
    HasDuplicates(new_keys) \/ Range(new_keys) \cap stored_keys # {}

\* variant: semantic_relations without its foreign keys
SemanticRelation_fk_unchecked(relations, concept_iris) == FALSE

\* foreign keys of semantic_relations: both ends reference concepts.iri
SemanticRelation_fk_violated(relations, concept_iris) ==
    \E r \in Range(relations) :
        \/ r.source_concept_iri \notin concept_iris
        \/ r.target_concept_iri \notin concept_iris

\* foreign keys of in_scheme: concept_schemes.iri and collection_members.iri
in_scheme_fk_violated(rows, scheme_iris, member_iris) ==
    \E r \in Range(rows) :
        r.scheme_iri \notin scheme_iris \/ r.member_iri \notin member_iris

\* foreign keys of in_collection: collections.iri and collection_members.iri
in_collection_fk_violated(rows, collection_iris, member_iris) ==
    \E r \in Range(rows) :
        r.collection_iri \notin collection_iris \/ r.member_iri \notin member_iris

----------------------------------------------------------------------------
(* database.py *)

\* variant: the drop flag is ignored
init_engine_keep(d, drop_database_flag) == d

\* init_engine: the database of DATABASE_URL exists once a controller was
\* built, so the drop flag alone decides whether its rows are discarded
init_engine(d, drop_database_flag) ==
    IF drop_database_flag THEN EmptyDb ELSE d

\* save_dataset: one unit of work.  All rows of the dataset are added, every
\* collection resolves its members against the members of the batch and the
\* members already stored, and the commit either stores everything or, when
\* a constraint is violated, raises and stores nothing.
save_dataset(d, concept_schemes, concepts, collections, semantic_relations) ==
    LET members == concepts \o collections
        member_row(m) == [iri |-> m.iri, member_type |-> m.member_type]
        in_scheme_rows ==
            Flatten(MapSeq(
                LAMBDA m : MapSeq(LAMBDA cs : [scheme_iri |-> cs.iri,
                                               member_iri |-> m.iri],
                                  m.concept_schemes),
                members))
        available == MapSeq(member_row, members)
                         \o SetToSeq(d.collection_members)
        in_collection_rows ==
            Flatten(MapSeq(
                LAMBDA c : MapSeq(LAMBDA m : [collection_iri |-> c.iri,
                                              member_iri |-> m.iri],
                                  resolve_members_from_xml(c, available)),
                collections))
        scheme_iris == MapSeq(LAMBDA cs : cs.iri, concept_schemes)
        member_iris == MapSeq(LAMBDA m : m.iri, members)
        all_schemes == d.concept_schemes \cup Range(scheme_iris)
        all_members == d.collection_members \cup Range(MapSeq(member_row, members))
        all_concepts ==
            Iris({m \in all_members : m.member_type = MemberType.CONCEPT})
        all_collections ==
            Iris({m \in all_members : m.member_type = MemberType.COLLECTION})
        violated ==
            \/ PrimaryKeyViolated(scheme_iris, d.concept_schemes)
            \/ PrimaryKeyViolated(member_iris, Iris(d.collection_members))
            \/ PrimaryKeyViolated(
                   MapSeq(SemanticRelation_key, semantic_relations),
                   {SemanticRelation_key(r) : r \in d.semantic_relations})
            \/ PrimaryKeyViolated(MapSeq(in_scheme_key, in_scheme_rows),
                                  {in_scheme_key(r) : r \in d.in_scheme})
            \/ PrimaryKeyViolated(MapSeq(in_collection_key, in_collection_rows),
                                  {in_collection_key(r) : r \in d.in_collection})
            \/ SemanticRelation_fk_violated(semantic_relations, all_concepts)
            \/ in_scheme_fk_violated(in_scheme_rows, all_schemes,
                                     Iris(all_members))
            \/ in_collection_fk_violated(in_collection_rows, all_collections,
                                         Iris(all_members))
    IN  IF violated
        THEN [raised |-> TRUE, error |-> "IntegrityError", db |-> d]
        ELSE [raised |-> FALSE, error |-> "",
              db |-> [concept_schemes |-> all_schemes,
                      collection_members |-> all_members,
                      in_scheme |-> d.in_scheme \cup Range(in_scheme_rows),
                      in_collection |->
                          d.in_collection \cup Range(in_collection_rows),
                      semantic_relations |->
                          d.semantic_relations \cup Range(semantic_relations)]]

----------------------------------------------------------------------------
(* services.py: GlossaryController.init_datasets *)

\* what str(error) gives for the exception of each stage
FetchError == "[Errno 2] No such file or directory"
ParseError == "XMLSyntaxError"

\* how one pass of the try block can go before the rows reach the database
Outcomes == {"unreachable", "malformed", "parsed"}

FailedDataset(name, url, error) == [name |-> name, url |-> url, error |-> error]

\* variant: the members and the relations of a dataset are saved in two
\* units of work
try_dataset_split(d, outcome, parsed) ==
    IF outcome = "unreachable"
    THEN [raised |-> TRUE, error |-> FetchError, db |-> d]
    ELSE IF outcome = "malformed"
    THEN [raised |-> TRUE, error |-> ParseError, db |-> d]
    ELSE LET first == save_dataset(d, parsed.concept_schemes, parsed.concepts,
                                   parsed.collections, <<>>)
         IN  IF first.raised THEN first
             ELSE save_dataset(first.db, <<>>, <<>>, <<>>,
                               parsed.semantic_relations)

\* the try block for one dataset: load and save the ontology, parse the
\* written file, save the parsed dataset
try_dataset(d, outcome, parsed) ==
    IF outcome = "unreachable"
    THEN [raised |-> TRUE, error |-> FetchError, db |-> d]
    ELSE IF outcome = "malformed"
    THEN [raised |-> TRUE, error |-> ParseError, db |-> d]
    ELSE save_dataset(d, parsed.concept_schemes, parsed.concepts,
                      parsed.collections, parsed.semantic_relations)

\* saved_datasets after the try / except of one dataset
saved_after(saved, dataset, result) ==
    IF result.raised THEN saved
    ELSE Append(saved, Dataset(dataset.name, dataset.url))

\* variant: the failure record replaces the list instead of extending it
failed_after_last(failed, dataset, result) ==
    IF result.raised
    THEN <<FailedDataset(dataset.name, dataset.url, result.error)>>
    ELSE failed

\* failed_datasets after the try / except of one dataset
failed_after(failed, dataset, result) ==
    IF result.raised
    THEN Append(failed, FailedDataset(dataset.name, dataset.url, result.error))
    ELSE failed

\* the flag init_datasets passes to init_engine
drop_database_flag(reload_arg) == TRUE

\* log entry: the stage at which the dataset ended
Stage(outcome, result) ==
    IF outcome = "unreachable" THEN "fetch"
    ELSE IF outcome = "malformed" THEN "parse"
    ELSE IF result.raised THEN "persist" ELSE "ok"

\* the files ontology.save can write for a source: its top-level elements in
\* an order of the serialiser's choosing
Written(url) == Perms(Source(url))

\* what parse_dataset can return for the file written from each URL
ParsedFiles ==
    [url \in {dataset.url : dataset \in Catalogue} |->
        {parse_dataset(root) : root \in Written(url)}]

\* nothing is parsed when the load raised or the file is malformed
NotParsed == [concept_schemes |-> <<>>, concepts |-> <<>>,
              collections |-> <<>>, semantic_relations |-> <<>>]

Parsed(url, outcome) ==
    IF outcome = "parsed" THEN ParsedFiles[url] ELSE {NotParsed}

Configurations == SeqsUpTo(Catalogue, MaxDatasets)

NoResponse == [op |-> "none"]

\* API_KEY is not in the environment
Unset == [set |-> FALSE]

\* nothing is cached
NotCached == [cached |-> FALSE]

\* a controller before its first init_datasets call
InitController ==
    /\ datasets \in Configurations
    /\ db = EmptyDb
    /\ pc = "idle"
    /\ reload = FALSE
    /\ idx = 0
    /\ saved_datasets = <<>>
    /\ failed_datasets = <<>>
    /\ stages = <<>>
    /\ graph_at_call = EmptyDb
    /\ response = NoResponse
    /\ in_call = FALSE

\* no file was handed to the parser
InitParser ==
    /\ xml_root = <<>>
    /\ parsed_dataset = NotParsed

\* no concept with labels is stored, nothing was looked up
InitLabels ==
    /\ concepts_table = {}
    /\ search_response = NoResponse
    /\ looked = NoResponse

\* a process without API_KEY that has not read its settings
InitSettings ==
    /\ environ = Unset
    /\ settings_cache = NotCached
    /\ auth_response = NoResponse

\* both association tables are empty
InitEdges ==
    /\ in_scheme_table = EmptyBag
    /\ in_collection_table = EmptyBag
    /\ edges_saved = NoResponse

\* Python's None
None == "None"

\* a database the server does not have
NoDatabase == [exists |-> FALSE, tables |-> {}, rows |-> {}]

DatabaseUrls == {"postgresql://one", "postgresql://two"}

\* a server without databases, DATABASE_URL not set
InitEngine ==
    /\ database_server = [url \in DatabaseUrls |-> NoDatabase]
    /\ database_environ = None
    /\ engine_result = NoResponse

\* no file at a path
NoFile == "ENOENT"

Paths == {"file.txt", "file.zip"}

\* an empty directory
InitFiles ==
    /\ files = [path \in Paths |-> NoFile]
    /\ fetch_result = NoResponse

\* an element without attributes and children, nothing extracted
InitExtract ==
    /\ xml_element = [tag |-> "Concept", children |-> <<>>]
    /\ extracted = NoResponse

\* the three tables of database.py after create_all
InitSchemeDb ==
    /\ scheme_db = [concept_schemes |-> {}, concepts |-> {},
                    relationships |-> {}]
    /\ scheme_saved = NoResponse

\* the revisions of the two migrations
InitialMigration == "658cfadcf600"
UpdateAltLabelsToList == "5233d5762475"

ConceptRows == {"c1", "c2", "c3"}

\* a database at the initial migration whose concepts have no altLabels
InitMigration ==
    /\ alt_labels = [iri \in ConceptRows |-> <<>>]
    /\ revision = InitialMigration
    /\ migrated = NoResponse

\* a Neo4j instance without nodes
EmptyGraph == [nodes |-> {}, edges |-> {}]

InitNeo ==
    /\ graph = EmptyGraph
    /\ neo_loaded = NoResponse

\* the parts modelled on their own, before anything was done with them
InitTools ==
    /\ InitEdges
    /\ InitEngine
    /\ InitFiles
    /\ InitExtract
    /\ InitSchemeDb
    /\ InitMigration
    /\ InitNeo

Init ==
    /\ InitController
    /\ InitParser
    /\ InitLabels
    /\ InitSettings
    /\ InitTools

\* entry of init_datasets up to the loop: empty lists, engine re-initialised
InitDatasetsEnter(reload_arg) ==
    /\ pc \in {"idle", "returned"}
    /\ pc' = "loop"
    /\ reload' = reload_arg
    /\ saved_datasets' = <<>>
    /\ failed_datasets' = <<>>
    /\ db' = init_engine(db, drop_database_flag(reload_arg))
    /\ idx' = 1
    /\ stages' = <<>>
    /\ graph_at_call' = db
    /\ in_call' = FALSE
    /\ UNCHANGED <<datasets, response>>

\* a direct call of controller.init_datasets
InitDatasetsBegin(reload_arg) ==
    /\ InitDatasetsEnter(reload_arg)
    /\ UNCHANGED <<parse_vars, label_vars, auth_vars, tool_vars>>

\* variant: the loop runs over the configured datasets from the last to the
\* first
LoadDataset_reversed ==
    /\ pc = "loop"
    /\ idx <= Len(datasets)
    /\ LET dataset == datasets[Len(datasets) + 1 - idx]
       IN  \E outcome \in Outcomes :
           \E parsed \in Parsed(dataset.url, outcome) :
              LET result == try_dataset(db, outcome, parsed)
              IN  /\ db' = result.db
                  /\ saved_datasets' =
                         saved_after(saved_datasets, dataset, result)
                  /\ failed_datasets' =
                         failed_after(failed_datasets, dataset, result)
                  /\ stages' = Append(stages, Stage(outcome, result))
    /\ idx' = idx + 1
    /\ UNCHANGED <<datasets, pc, reload, graph_at_call, response, in_call>>
    /\ UNCHANGED <<parse_vars, label_vars, auth_vars, tool_vars>>

\* one iteration of the loop
LoadDataset ==
    /\ pc = "loop"
    /\ idx <= Len(datasets)
    /\ \E outcome \in Outcomes :
       \E parsed \in Parsed(datasets[idx].url, outcome) :
          LET result == try_dataset(db, outcome, parsed)
          IN  /\ db' = result.db
              /\ saved_datasets' =
                     saved_after(saved_datasets, datasets[idx], result)
              /\ failed_datasets' =
                     failed_after(failed_datasets, datasets[idx], result)
              /\ stages' = Append(stages, Stage(outcome, result))
    /\ idx' = idx + 1
    /\ UNCHANGED <<datasets, pc, reload, graph_at_call, response, in_call>>
    /\ UNCHANGED <<parse_vars, label_vars, auth_vars, tool_vars>>

\* the loop is over: the response is returned
InitDatasetsReturn ==
    /\ pc = "loop"
    /\ idx > Len(datasets)
    /\ pc' = "returned"
    /\ UNCHANGED <<datasets, db, reload, idx, saved_datasets, failed_datasets,
                   stages, graph_at_call, response, in_call>>
    /\ UNCHANGED <<parse_vars, label_vars, auth_vars, tool_vars>>

----------------------------------------------------------------------------
(* database.py: the reads.  A by-IRI read of a missing row raises          *)
(* NoResultFound, which is what the services catch.                        *)

NoResultFound == [raised |-> "NoResultFound"]

db_get_concept_schemes(d) == d.concept_schemes

\* the scheme with its members eagerly loaded
db_get_concept_scheme(d, concept_scheme_iri) ==
    IF concept_scheme_iri \in d.concept_schemes
    THEN [raised |-> "",
          iri |-> concept_scheme_iri,
          members |-> {m \in d.collection_members :
                          \E e \in d.in_scheme :
                              /\ e.scheme_iri = concept_scheme_iri
                              /\ e.member_iri = m.iri}]
    ELSE NoResultFound

\* the collection with its resolved members eagerly loaded
db_get_collection(d, collection_iri) ==
    IF collection_iri \in CollectionIris(d)
    THEN [raised |-> "",
          iri |-> collection_iri,
          members |-> {m \in d.collection_members :
                          \E e \in d.in_collection :
                              /\ e.collection_iri = collection_iri
                              /\ e.member_iri = m.iri}]
    ELSE NoResultFound

\* the concept with its owning schemes eagerly loaded
db_get_concept(d, concept_iri) ==
    IF concept_iri \in ConceptIris(d)
    THEN [raised |-> "",
          iri |-> concept_iri,
          concept_schemes |-> {e.scheme_iri : e \in
                                  {x \in d.in_scheme : x.member_iri = concept_iri}}]
    ELSE NoResultFound

\* variant: only the relations that start at the concept
db_get_relations_outgoing(d, concept_iri) ==
    {r \in d.semantic_relations : r.source_concept_iri = concept_iri}

\* every relation in which the concept is the source or the target
db_get_relations(d, concept_iri) ==
    {r \in d.semantic_relations :
        r.source_concept_iri = concept_iri \/ r.target_concept_iri = concept_iri}

----------------------------------------------------------------------------
(* exceptions.py *)

NOT_FOUND == 404
OK == 200

\* detail is the text "<entity_name> <entity_iri> not found.", kept as its
\* three parts
EntityNotFound(entity_name, entity_iri) ==
    [status_code |-> NOT_FOUND,
     detail |-> <<entity_name, entity_iri, "not found.">>]

ConceptSchemeNotFoundException(concept_scheme_iri) ==
    EntityNotFound("Concept scheme", concept_scheme_iri)

ConceptNotFoundException(concept_iri) == EntityNotFound("Concept", concept_iri)

CollectionNotFoundException(collection_iri) ==
    EntityNotFound("Collection", collection_iri)

----------------------------------------------------------------------------
(* services.py: the query operations of GlossaryController *)

Returned(body) == [status_code |-> OK, body |-> body]

\* variant: the members are not filtered by type
get_scheme_members_all(members, member_type) == members

get_scheme_members(members, member_type) ==
    {member \in members : member.member_type = member_type}

get_concept_schemes(d) == Returned(db_get_concept_schemes(d))

get_concept_scheme(d, concept_scheme_iri) ==
    LET concept_scheme == db_get_concept_scheme(d, concept_scheme_iri)
    IN  IF concept_scheme = NoResultFound
        THEN ConceptSchemeNotFoundException(concept_scheme_iri)
        ELSE Returned(
                 [iri |-> concept_scheme.iri,
                  collections |->
                      Iris(get_scheme_members(concept_scheme.members,
                                              MemberType.COLLECTION)),
                  concepts |->
                      Iris(get_scheme_members(concept_scheme.members,
                                              MemberType.CONCEPT))])

get_collections(d, concept_scheme_iri) ==
    LET concept_scheme == db_get_concept_scheme(d, concept_scheme_iri)
    IN  IF concept_scheme = NoResultFound
        THEN ConceptSchemeNotFoundException(concept_scheme_iri)
        ELSE Returned(Iris(get_scheme_members(concept_scheme.members,
                                              MemberType.COLLECTION)))

get_collection(d, collection_iri) ==
    LET collection == db_get_collection(d, collection_iri)
    IN  IF collection = NoResultFound
        THEN CollectionNotFoundException(collection_iri)
        ELSE Returned(
                 [iri |-> collection.iri,
                  collections |->
                      Iris(get_scheme_members(collection.members,
                                              MemberType.COLLECTION)),
                  concepts |->
                      Iris(get_scheme_members(collection.members,
                                              MemberType.CONCEPT))])

\* variant: a missing scheme is answered with an empty list
get_concepts_empty(d, concept_scheme_iri) ==
    LET concept_scheme == db_get_concept_scheme(d, concept_scheme_iri)
    IN  IF concept_scheme = NoResultFound
        THEN Returned({})
        ELSE Returned(Iris(get_scheme_members(concept_scheme.members,
                                              MemberType.CONCEPT)))

get_concepts(d, concept_scheme_iri) ==
    LET concept_scheme == db_get_concept_scheme(d, concept_scheme_iri)
    IN  IF concept_scheme = NoResultFound
        THEN ConceptSchemeNotFoundException(concept_scheme_iri)
        ELSE Returned(Iris(get_scheme_members(concept_scheme.members,
                                              MemberType.CONCEPT)))

get_concept(d, concept_iri) ==
    LET concept == db_get_concept(d, concept_iri)
    IN  IF concept = NoResultFound
        THEN ConceptNotFoundException(concept_iri)
        ELSE Returned([iri |-> concept.iri,
                       concept_schemes |-> concept.concept_schemes,
                       relations |-> db_get_relations(d, concept_iri)])

ByIriOps ==
    {"get_concept_scheme", "get_collections", "get_concepts",
     "get_collection", "get_concept"}

\* what the service answers to a request on the rows d
Answer(op, iri, d) ==
    CASE op = "get_concept_schemes" -> get_concept_schemes(d)
      [] op = "get_concept_scheme" -> get_concept_scheme(d, iri)
      [] op = "get_collections" -> get_collections(d, iri)
      [] op = "get_concepts" -> get_concepts(d, iri)
      [] op = "get_collection" -> get_collection(d, iri)
      [] op = "get_concept" -> get_concept(d, iri)

\* a request is served from the committed rows, whatever init_datasets is
\* doing: the routes take no lock
Serve(op, iri) ==
    /\ response' = [op |-> op, iri |-> iri, result |-> Answer(op, iri, db)]
    /\ in_call' = (pc = "loop")
    /\ UNCHANGED <<datasets, db, pc, reload, idx, saved_datasets,
                   failed_datasets, stages, graph_at_call>>
    /\ UNCHANGED <<parse_vars, label_vars, auth_vars, tool_vars>>

GetConceptSchemes == Serve("get_concept_schemes", "")
GetConceptScheme == \E iri \in QueryIris : Serve("get_concept_scheme", iri)
GetCollections == \E iri \in QueryIris : Serve("get_collections", iri)
GetConcepts == \E iri \in QueryIris : Serve("get_concepts", iri)
GetCollection == \E iri \in QueryIris : Serve("get_collection", iri)
GetConcept == \E iri \in QueryIris : Serve("get_concept", iri)

Query ==
    \/ GetConceptSchemes
    \/ GetConceptScheme
    \/ GetCollections
    \/ GetConcepts
    \/ GetCollection
    \/ GetConcept

Next ==
    \/ \E reload_arg \in BOOLEAN : InitDatasetsBegin(reload_arg)
    \/ LoadDataset
    \/ InitDatasetsReturn

\* ingestion alone: any number of init_datasets calls, one after the other
Spec == Init /\ [][Next]_vars

\* a dataset that can be saved and one whose rows the schema refuses
LiveCatalogue ==
    {Dataset("extern.rdf", "u/extern"), Dataset("dangling.rdf", "u/dangling")}

InitLive == Init /\ datasets \in SeqsUpTo(LiveCatalogue, MaxDatasets)

\* calls one after the other, with the thread of a call running on: an
\* iteration that can be taken is taken, and so is the return
SpecLive ==
    /\ InitLive
    /\ [][Next]_vars
    /\ WF_vars(LoadDataset)
    /\ WF_vars(InitDatasetsReturn)

\* the datasets whose source declares an IRI the requests ask for
Declares(dataset, iris) ==
    \E element \in Source(dataset.url) : element.about \in iris

Queried == {dataset \in Catalogue : Declares(dataset, QueryIris)}

\* the first init_datasets call of a deployment, over the datasets the
\* requests touch, with the query service answering requests at any moment
InitServe == Init /\ datasets \in SeqsUpTo(Queried, MaxDatasets)

NextServe ==
    \/ (pc = "idle" /\ \E reload_arg \in BOOLEAN : InitDatasetsBegin(reload_arg))
    \/ LoadDataset
    \/ InitDatasetsReturn
    \/ Query

SpecServe == InitServe /\ [][NextServe]_vars

----------------------------------------------------------------------------
(* xml.py: the parser of the dataset files *)

\* longest document handed to the parser, in top-level elements
MaxElements == 4

concept_scheme_from_xml(element) ==
    [iri |-> get_element_attribute(element, "about", "")]

collection_from_xml(element) ==
    [iri |-> get_element_attribute(element, "about", ""),
     member_type |-> MemberType.COLLECTION]

concept_from_xml(element) ==
    [iri |-> get_element_attribute(element, "about", ""),
     member_type |-> MemberType.CONCEPT]

\* variant: a broader reference also yields the inverse narrower relation
semantic_relations_with_inverse(element) ==
    SemanticRelation_from_xml_element(element)
        \o MapSeq(LAMBDA target_concept_iri :
                      [type |-> "narrower",
                       source_concept_iri |-> target_concept_iri,
                       target_concept_iri |->
                           get_element_attribute(element, "about", "")],
                  get_sub_element_attributes(element, "broader", "resource", ""))

semantic_relations_from_xml(element) ==
    Flatten(MapSeq(
        LAMBDA relation_type :
            MapSeq(LAMBDA target_concept_iri :
                       [type |-> relation_type,
                        source_concept_iri |->
                            get_element_attribute(element, "about", ""),
                        target_concept_iri |-> target_concept_iri],
                   get_sub_element_attributes(element, relation_type,
                                              "resource", "")),
        SemanticRelationType))

\* variant: only the first inScheme child is read
in_scheme_from_xml_first(element) ==
    LET scheme_iris ==
            get_sub_element_attributes(element, "inScheme", "resource", "")
    IN  IF scheme_iris = <<>> THEN <<>>
        ELSE <<[member_iri |-> get_element_attribute(element, "about", ""),
                scheme_iri |-> Head(scheme_iris)]>>

in_scheme_from_xml(element) ==
    LET concept_iri == get_element_attribute(element, "about", "")
        scheme_iris ==
            get_sub_element_attributes(element, "inScheme", "resource", "")
    IN  MapSeq(LAMBDA scheme_iri :
                   [member_iri |-> concept_iri, scheme_iri |-> scheme_iri],
               scheme_iris)

in_collection_from_xml(element) ==
    LET collection_iri == get_element_attribute(element, "about", "")
        member_iris ==
            get_sub_element_attributes(element, "member", "resource", "")
    IN  MapSeq(LAMBDA member_iri :
                   [collection_iri |-> collection_iri, member_iri |-> member_iri],
               member_iris)

\* variant: the edges are read from the Concept elements only
xml_parse_dataset_concept_edges(document) ==
    LET concept_elements == SelectSeq(document, LAMBDA e : e.tag = "Concept")
    IN  [concept_schemes |->
             MapSeq(concept_scheme_from_xml,
                    SelectSeq(document, LAMBDA e : e.tag = "ConceptScheme")),
         concepts |-> MapSeq(concept_from_xml, concept_elements),
         collections |->
             MapSeq(collection_from_xml,
                    SelectSeq(document, LAMBDA e : e.tag = "Collection")),
         semantic_relations |->
             Flatten(MapSeq(semantic_relations_from_xml, concept_elements)),
         in_schemes |-> Flatten(MapSeq(in_scheme_from_xml, concept_elements)),
         in_collections |->
             Flatten(MapSeq(in_collection_from_xml, concept_elements))]

\* parse_dataset of xml.py, on the root element of the file
xml_parse_dataset(document) ==
    LET concept_scheme_elements ==
            SelectSeq(document, LAMBDA e : e.tag = "ConceptScheme")
        collection_elements ==
            SelectSeq(document, LAMBDA e : e.tag = "Collection")
        concept_elements == SelectSeq(document, LAMBDA e : e.tag = "Concept")
        member_elements == collection_elements \o concept_elements
    IN  [concept_schemes |->
             MapSeq(concept_scheme_from_xml, concept_scheme_elements),
         concepts |-> MapSeq(concept_from_xml, concept_elements),
         collections |-> MapSeq(collection_from_xml, collection_elements),
         semantic_relations |->
             Flatten(MapSeq(semantic_relations_from_xml, concept_elements)),
         in_schemes |-> Flatten(MapSeq(in_scheme_from_xml, member_elements)),
         in_collections |->
             Flatten(MapSeq(in_collection_from_xml, member_elements))]

\* top-level elements the documents are made of: a scheme, a concept in two
\* schemes with three broader targets, a concept without children, a
\* collection with a concept and a collection as members, a collection in
\* two schemes, and a concept that carries relation and member children
ParseElements ==
    { El("ConceptScheme", "s1", <<>>),
      El("Concept", "a",
         <<Ch("inScheme", "s1"), Ch("broader", "b"), Ch("inScheme", "s2"),
           Ch("broader", "c"), Ch("broader", "d")>>),
      El("Concept", "b", <<>>),
      El("Collection", "c1",
         <<Ch("inScheme", "s1"), Ch("member", "a"), Ch("member", "c2")>>),
      El("Collection", "c2", <<Ch("inScheme", "s2"), Ch("inScheme", "s1")>>),
      El("Concept", "m",
         <<Ch("related", "b"), Ch("member", "a"),
           Ch("narrowerTransitive", "a")>>) }

ParseDocuments == SeqsUpTo(ParseElements, MaxElements)

InitParse == Init /\ datasets = <<>>

\* the file is chosen ...
ReadFile ==
    /\ pc = "idle"
    /\ xml_root = <<>>
    /\ parsed_dataset = NotParsed
    /\ xml_root' \in ParseDocuments \ {<<>>}
    /\ UNCHANGED <<controller_vars, parsed_dataset, label_vars, auth_vars,
                   tool_vars>>

\* ... and parsed
ParseDataset ==
    /\ xml_root # <<>>
    /\ parsed_dataset = NotParsed
    /\ parsed_dataset' = xml_parse_dataset(xml_root)
    /\ UNCHANGED <<controller_vars, xml_root, label_vars, auth_vars,
                   tool_vars>>

NextParse == ReadFile \/ ParseDataset

\* the parser alone, on every document of up to MaxElements elements
SpecParse == InitParse /\ [][NextParse]_vars

----------------------------------------------------------------------------
(* model.py: labels by language; services.py: search_database.  A string   *)
(* is the sequence of its characters, so "" and [] are both <<>>.          *)

\* str.__contains__: term is a substring of label
Contains(term, label) ==
    \E i \in 0..(Len(label) - Len(term)) :
        SubSeq(label, i + 1, i + Len(term)) = term

\* variant: no fallback to English
get_in_language_strict(attribute, lang) ==
    IF lang \in DOMAIN attribute THEN attribute[lang] ELSE <<>>

\* Base.get_in_language: attribute.get(lang, attribute.get("en", ""))
get_in_language(attribute, lang) ==
    IF lang \in DOMAIN attribute THEN attribute[lang]
    ELSE IF "en" \in DOMAIN attribute THEN attribute["en"] ELSE <<>>

\* variant: no fallback to English
get_in_language_list_strict(attribute, lang) ==
    IF lang \in DOMAIN attribute THEN attribute[lang] ELSE <<>>

\* Base.get_in_language_list: attribute.get(lang, attribute.get("en", []))
get_in_language_list(attribute, lang) ==
    IF lang \in DOMAIN attribute THEN attribute[lang]
    ELSE IF "en" \in DOMAIN attribute THEN attribute["en"] ELSE <<>>

Concept_to_dict(self, lang) ==
    [iri |-> self.iri,
     prefLabel |-> get_in_language(self.prefLabels, lang),
     altLabels |-> get_in_language_list(self.altLabels, lang)]

\* database.py, search_database: the stored concepts whose prefLabel or one
\* of whose altLabels in the language, English when the language is
\* missing, contains the term
db_search_database(table, search_term, lang) ==
    {concept \in table :
        \/ Contains(search_term, get_in_language(concept.prefLabels, lang))
        \/ \E label \in Range(get_in_language_list(concept.altLabels, lang)) :
               Contains(search_term, label)}

\* GlossaryController.search_database
search_database(table, search_term, lang) ==
    {Concept_to_dict(concept, lang) :
        concept \in db_search_database(table, search_term, lang)}

Languages == {"en", "fr", "de"}

\* a dict without keys
NoLabels == <<>>

\* concepts a table can hold: labels in English and French; in English
\* only; a prefLabel in French only and no altLabel; altLabels in German
\* only
ConceptPool ==
    { [iri |-> "w",
       prefLabels |-> [en |-> <<"a", "b">>, fr |-> <<"c", "d">>],
       altLabels |-> [en |-> << <<"b", "c">> >>, fr |-> << <<"d", "d">> >>]],
      [iri |-> "x",
       prefLabels |-> [en |-> <<"c", "a">>],
       altLabels |-> [en |-> << <<"b", "d">>, <<"a", "b">> >>]],
      [iri |-> "y",
       prefLabels |-> [fr |-> <<"a", "b">>],
       altLabels |-> NoLabels],
      [iri |-> "z",
       prefLabels |-> NoLabels,
       altLabels |-> [de |-> << <<"a", "b">> >>]] }

\* a term in several labels, a term in one English altLabel only, and a
\* term in no label
SearchTerms == { <<"a", "b">>, <<"b", "d">>, <<"z">> }

InitSearch ==
    /\ InitController
    /\ datasets = <<>>
    /\ InitParser
    /\ InitSettings
    /\ InitTools
    /\ concepts_table \in SUBSET ConceptPool
    /\ search_response = NoResponse
    /\ looked = NoResponse

\* GET /search
SearchDatabase ==
    /\ \E search_term \in SearchTerms, lang \in Languages :
           search_response' =
               [op |-> "search_database", search_term |-> search_term,
                lang |-> lang,
                result |-> search_database(concepts_table, search_term, lang)]
    /\ UNCHANGED <<controller_vars, parse_vars, concepts_table, looked,
                   auth_vars, tool_vars>>

\* the two lookups on the label dicts of a stored concept
GetInLanguage ==
    /\ \E concept \in concepts_table, lang \in Languages :
           looked' =
               [op |-> "get_in_language", lang |-> lang,
                attribute |-> concept.prefLabels,
                value |-> get_in_language(concept.prefLabels, lang),
                list_attribute |-> concept.altLabels,
                list_value |-> get_in_language_list(concept.altLabels, lang)]
    /\ UNCHANGED <<controller_vars, parse_vars, concepts_table,
                   search_response, auth_vars, tool_vars>>

NextSearch == SearchDatabase \/ GetInLanguage

\* label lookups and searches on every table of concepts of the pool
SpecSearch == InitSearch /\ [][NextSearch]_vars

----------------------------------------------------------------------------
(* settings.py and auth.py: the API key of the ingestion endpoint *)

FORBIDDEN == 403

\* values API_KEY can have in the environment
EnvKeys == {"", "k1", "k2"}

\* the default of the api_key parameter, when get_api_key is called without
\* a key: the Depends object, which equals no string of the environment
Missing == "Depends(api_key_header)"

\* keys a caller can present
PresentedKeys == {Missing, "", "k1", "k2"}

Environments == {Unset} \cup {[set |-> TRUE, API_KEY |-> k] : k \in EnvKeys}

\* Settings(): API_KEY is required, its absence is a ValidationError
Settings(env) ==
    IF env.set THEN [raised |-> FALSE, API_KEY |-> env.API_KEY]
    ELSE [raised |-> TRUE]

\* get_settings under lru_cache: the first Settings() that succeeds is kept
\* and returned from then on; an exception is not cached
get_settings(cache, env) ==
    IF cache.cached
    THEN [raised |-> FALSE, API_KEY |-> cache.API_KEY, cache |-> cache]
    ELSE LET made == Settings(env)
         IN  IF made.raised THEN [raised |-> TRUE, cache |-> cache]
             ELSE [raised |-> FALSE, API_KEY |-> made.API_KEY,
                   cache |-> [cached |-> TRUE, API_KEY |-> made.API_KEY]]

InvalidApiKey == [status_code |-> FORBIDDEN, detail |-> "Invalid API Key"]

\* variant: the key is not compared
get_api_key_unchecked(api_key, cache, env) ==
    LET got == get_settings(cache, env)
    IN  IF got.raised
        THEN [raised |-> TRUE, error |-> InvalidApiKey, cache |-> got.cache]
        ELSE [raised |-> FALSE, value |-> [api_key |-> api_key],
              cache |-> got.cache]

get_api_key(api_key, cache, env) ==
    LET got == get_settings(cache, env)
    IN  IF got.raised
        THEN [raised |-> TRUE, error |-> InvalidApiKey, cache |-> got.cache]
        ELSE IF api_key # got.API_KEY
        THEN [raised |-> TRUE, error |-> InvalidApiKey, cache |-> got.cache]
        ELSE [raised |-> FALSE, value |-> [api_key |-> api_key],
              cache |-> got.cache]

\* the reply to a caller: what was presented, the environment at that time,
\* and the outcome
AuthReply(op, api_key, result) ==
    IF result.raised
    THEN [op |-> op, api_key |-> api_key, environ |-> environ,
          status_code |-> result.error.status_code,
          detail |-> result.error.detail]
    ELSE [op |-> op, api_key |-> api_key, environ |-> environ,
          status_code |-> OK, body |-> result.value]

\* APIKeyHeader: a request without the X-API-Key header, or with an empty
\* one, is refused before get_api_key runs
NotAuthenticated ==
    [raised |-> TRUE,
     error |-> [status_code |-> FORBIDDEN, detail |-> "Not authenticated"]]

InitAuth ==
    /\ InitController
    /\ Len(datasets) <= 1
    /\ InitParser
    /\ InitLabels
    /\ InitTools
    /\ environ \in Environments
    /\ settings_cache = NotCached
    /\ auth_response = NoResponse

\* the environment of the process changes (setenv, delenv)
SetEnv ==
    /\ environ' \in Environments \ {environ}
    /\ UNCHANGED <<controller_vars, parse_vars, label_vars, settings_cache,
                   auth_response, tool_vars>>

\* get_api_key called as a function
GetApiKey ==
    /\ \E api_key \in PresentedKeys :
           LET result == get_api_key(api_key, settings_cache, environ)
           IN  /\ auth_response' = AuthReply("get_api_key", api_key, result)
               /\ settings_cache' = result.cache
    /\ UNCHANGED <<controller_vars, parse_vars, label_vars, environ, tool_vars>>

\* POST /init_datasets: the key check, then controller.init_datasets
PostInitDatasets ==
    /\ pc \in {"idle", "returned"}
    /\ \E header \in PresentedKeys, reload_arg \in BOOLEAN :
           IF header \in {Missing, ""}
           THEN /\ auth_response' =
                       AuthReply("init_datasets", header, NotAuthenticated)
                /\ UNCHANGED <<controller_vars, settings_cache>>
           ELSE LET result == get_api_key(header, settings_cache, environ)
                IN  /\ auth_response' =
                           AuthReply("init_datasets", header, result)
                    /\ settings_cache' = result.cache
                    /\ IF result.raised THEN UNCHANGED controller_vars
                       ELSE InitDatasetsEnter(reload_arg)
    /\ UNCHANGED <<parse_vars, label_vars, environ, tool_vars>>

NextAuth ==
    \/ SetEnv
    \/ GetApiKey
    \/ PostInitDatasets
    \/ LoadDataset
    \/ InitDatasetsReturn

\* the ingestion endpoint behind its key check, in a process whose
\* environment can change
SpecAuth == InitAuth /\ [][NextAuth]_vars

----------------------------------------------------------------------------
(* The association tables in_scheme and in_collection.  Each is kept as a  *)
(* bag of rows, which is what a table holds before any constraint is put   *)
(* on it.  Their foreign keys only refuse more batches and are left out:   *)
(* every batch they would refuse stores nothing.                           *)

\* most elements in a dataset file whose edges are inserted
MaxBatch == 2

\* most rows a table is filled to
MaxRows == 12

\* the bag of the rows of a list
BagOf(rows) ==
    [row \in Range(rows) |->
        Cardinality({i \in 1..Len(rows) : rows[i] = row})]

\* the insertion of the edges of one parsed dataset in one unit of work:
\* both lists are stored, or the commit raises IntegrityError on a composite
\* primary key and stores nothing
insert_edges(scheme_table, collection_table, in_schemes, in_collections) ==
    IF \/ PrimaryKeyViolated(
              MapSeq(in_scheme_key, in_schemes),
              {in_scheme_key(row) : row \in BagToSet(scheme_table)})
       \/ PrimaryKeyViolated(
              MapSeq(in_collection_key, in_collections),
              {in_collection_key(row) : row \in BagToSet(collection_table)})
    THEN [raised |-> TRUE, error |-> "IntegrityError",
          in_scheme |-> scheme_table, in_collection |-> collection_table]
    ELSE [raised |-> FALSE, error |-> "",
          in_scheme |-> scheme_table (+) BagOf(in_schemes),
          in_collection |-> collection_table (+) BagOf(in_collections)]

EdgeDocuments == SeqsUpTo(ParseElements, MaxBatch)

\* what parse_dataset returns for them
EdgeBatches == {xml_parse_dataset(document) : document \in EdgeDocuments}

\* the edges parse_dataset returned for a dataset file are inserted
SaveEdges ==
    /\ \E parsed \in EdgeBatches :
           LET result == insert_edges(in_scheme_table, in_collection_table,
                                      parsed.in_schemes, parsed.in_collections)
           IN  /\ BagCardinality(in_scheme_table) + Len(parsed.in_schemes)
                      <= MaxRows
               /\ BagCardinality(in_collection_table)
                      + Len(parsed.in_collections) <= MaxRows
               /\ in_scheme_table' = result.in_scheme
               /\ in_collection_table' = result.in_collection
               /\ edges_saved' =
                      [op |-> "save_dataset", raised |-> result.raised,
                       in_schemes |-> parsed.in_schemes,
                       in_collections |-> parsed.in_collections]
    /\ UNCHANGED <<service_vars, engine_vars, fetch_vars, extract_vars,
                   scheme_vars, migration_vars, neo_vars>>

\* the tables are emptied: init_engine with the drop flag
DropEdges ==
    /\ in_scheme_table' = EmptyBag
    /\ in_collection_table' = EmptyBag
    /\ edges_saved' = [op |-> "init_engine"]
    /\ UNCHANGED <<service_vars, engine_vars, fetch_vars, extract_vars,
                   scheme_vars, migration_vars, neo_vars>>

NextEdges == SaveEdges \/ DropEdges

\* any sequence of loads on the two association tables
SpecEdges == InitParse /\ [][NextEdges]_vars

----------------------------------------------------------------------------
(* database.py: init_engine on a database server *)

\* the tables of Base.metadata
SchemaTables == {"concept_schemes", "concepts", "relationships"}

\* values DATABASE_URL and the database_url argument can have
UrlValues == {None, ""} \cup DatabaseUrls

\* the databases a server can start with: none, one that was created
\* without tables, one with the tables
StartDatabases ==
    {NoDatabase,
     [exists |-> TRUE, tables |-> {}, rows |-> {}],
     [exists |-> TRUE, tables |-> SchemaTables, rows |-> {}]}

\* sqlalchemy_utils.drop_database, create_database
drop_database(server, url) == [server EXCEPT ![url] = NoDatabase]

create_database(server, url) ==
    [server EXCEPT ![url] = [exists |-> TRUE, tables |-> {}, rows |-> {}]]

\* Base.metadata.create_all: the missing tables are created, the others and
\* their rows are left alone
create_all(server, url) ==
    [server EXCEPT ![url].tables = @ \cup SchemaTables]

\* variant: the database is dropped whatever the flag says
database_init_engine_drop(server, env, database_url, drop_flag) ==
    LET url == IF database_url = None THEN env ELSE database_url
    IN  IF url \in {None, ""}
        THEN [raised |-> TRUE, error |-> "ValueError", server |-> server]
        ELSE LET dropped == IF server[url].exists
                            THEN drop_database(server, url) ELSE server
                 created == IF ~dropped[url].exists
                            THEN create_database(dropped, url) ELSE dropped
             IN  [raised |-> FALSE, error |-> "",
                  server |-> create_all(created, url)]

\* init_engine(database_url, drop_database_flag)
database_init_engine(server, env, database_url, drop_flag) ==
    LET url == IF database_url = None THEN env ELSE database_url
    IN  IF url \in {None, ""}
        THEN [raised |-> TRUE, error |-> "ValueError", server |-> server]
        ELSE LET dropped == IF server[url].exists /\ drop_flag
                            THEN drop_database(server, url) ELSE server
                 created == IF ~dropped[url].exists
                            THEN create_database(dropped, url) ELSE dropped
             IN  [raised |-> FALSE, error |-> "",
                  server |-> create_all(created, url)]

InitEngineServer ==
    /\ InitController
    /\ datasets = <<>>
    /\ InitParser
    /\ InitLabels
    /\ InitSettings
    /\ InitEdges
    /\ InitFiles
    /\ InitExtract
    /\ InitSchemeDb
    /\ InitMigration
    /\ InitNeo
    /\ database_server \in [DatabaseUrls -> StartDatabases]
    /\ database_environ \in UrlValues
    /\ engine_result = NoResponse

\* DATABASE_URL is set, changed or deleted
SetDatabaseUrl ==
    /\ database_environ' \in UrlValues \ {database_environ}
    /\ UNCHANGED <<service_vars, edge_vars, fetch_vars, extract_vars,
                   scheme_vars, database_server, engine_result,
                   migration_vars, neo_vars>>

\* a row is stored in a table of a database
StoreRow ==
    /\ \E url \in DatabaseUrls, table \in SchemaTables :
           /\ table \in database_server[url].tables
           /\ table \notin database_server[url].rows
           /\ database_server' =
                  [database_server EXCEPT ![url].rows = @ \cup {table}]
    /\ UNCHANGED <<service_vars, edge_vars, fetch_vars, extract_vars,
                   scheme_vars, database_environ, engine_result,
                   migration_vars, neo_vars>>

CallInitEngine ==
    /\ \E database_url \in UrlValues, drop_flag \in BOOLEAN :
           LET result == database_init_engine(database_server,
                                              database_environ, database_url,
                                              drop_flag)
           IN  /\ database_server' = result.server
               /\ engine_result' =
                      [op |-> "init_engine", database_url |-> database_url,
                       drop_database_flag |-> drop_flag,
                       environ |-> database_environ,
                       before |-> database_server,
                       raised |-> result.raised, error |-> result.error,
                       after |-> result.server]
    /\ UNCHANGED <<service_vars, edge_vars, fetch_vars, extract_vars,
                   scheme_vars, database_environ, migration_vars, neo_vars>>

NextEngine == SetDatabaseUrl \/ StoreRow \/ CallInitEngine

\* init_engine calls on a server whose databases come, go and fill up
SpecEngine == InitEngineServer /\ [][NextEngine]_vars

----------------------------------------------------------------------------
(* utils.py: get_file_from_url *)

\* response bodies: a plain one, an archive of two members, an archive of
\* one member whose content is that of the plain body, an empty archive
Contents == {"file content", "zip(a,b)", "zip(c)", "zip()"}

\* ZipFile(BytesIO(content)): the members of the archive in namelist order
Member(name, data) == [name |-> name, data |-> data]

IsZip(content) == content \in {"zip(a,b)", "zip(c)", "zip()"}

ZipFile(content) ==
    CASE content = "zip(a,b)" ->
             <<Member("a.txt", "content of a"), Member("b.txt", "content of b")>>
      [] content = "zip(c)" -> <<Member("example.txt", "file content")>>
      [] content = "zip()" -> <<>>

\* a header the response does not have
NoHeader == "KeyError"

ContentTypes == {"application/zip", "text/plain", NoHeader}

Responses ==
    [status_code : {OK, FORBIDDEN, NOT_FOUND},
     content_type : ContentTypes, content : Contents]

\* Response.raise_for_status raises HTTPError on 4xx and 5xx
raises_for_status(http_response) == http_response.status_code >= 400

\* file_output_path values: no path, or a path of the directory
OutputPaths == {None} \cup Paths

Raised(error, fs) == [raised |-> TRUE, error |-> error, files |-> fs]

\* the end of get_file_from_url: write when a path is given, then return
write_and_return(fs, file_bytes, file_output_path) ==
    [raised |-> FALSE, value |-> file_bytes,
     files |-> IF file_output_path = None THEN fs
               ELSE [fs EXCEPT ![file_output_path] = file_bytes]]

\* variant: the response body is what is written to the file
get_file_from_url_raw(fs, http_response, file_output_path) ==
    IF raises_for_status(http_response) THEN Raised("HTTPError", fs)
    ELSE IF http_response.content_type = NoHeader THEN Raised("KeyError", fs)
    ELSE IF http_response.content_type = "application/zip"
    THEN IF ~IsZip(http_response.content) THEN Raised("BadZipFile", fs)
         ELSE IF ZipFile(http_response.content) = <<>>
         THEN Raised("IndexError", fs)
         ELSE [raised |-> FALSE,
               value |-> ZipFile(http_response.content)[1].data,
               files |-> IF file_output_path = None THEN fs
                         ELSE [fs EXCEPT ![file_output_path] =
                                             http_response.content]]
    ELSE write_and_return(fs, http_response.content, file_output_path)

\* get_file_from_url on the response requests.get returned
get_file_from_url(fs, http_response, file_output_path) ==
    IF raises_for_status(http_response) THEN Raised("HTTPError", fs)
    ELSE IF http_response.content_type = NoHeader THEN Raised("KeyError", fs)
    ELSE IF http_response.content_type = "application/zip"
    THEN IF ~IsZip(http_response.content) THEN Raised("BadZipFile", fs)
         ELSE IF ZipFile(http_response.content) = <<>>
         THEN Raised("IndexError", fs)
         ELSE write_and_return(fs, ZipFile(http_response.content)[1].data,
                               file_output_path)
    ELSE write_and_return(fs, http_response.content, file_output_path)

GetFileFromUrl ==
    /\ \E http_response \in Responses, file_output_path \in OutputPaths :
           LET result == get_file_from_url(files, http_response,
                                           file_output_path)
           IN  /\ files' = result.files
               /\ fetch_result' =
                      [op |-> "get_file_from_url",
                       response |-> http_response,
                       file_output_path |-> file_output_path,
                       before |-> files,
                       raised |-> result.raised,
                       outcome |-> IF result.raised THEN result.error
                                   ELSE result.value,
                       after |-> result.files]
    /\ UNCHANGED <<service_vars, edge_vars, engine_vars, extract_vars,
                   scheme_vars, migration_vars, neo_vars>>

\* a file of the directory is deleted
Unlink ==
    /\ \E path \in Paths :
           /\ files[path] # NoFile
           /\ files' = [files EXCEPT ![path] = NoFile]
    /\ UNCHANGED <<service_vars, edge_vars, engine_vars, extract_vars,
                   scheme_vars, fetch_result, migration_vars, neo_vars>>

NextFetch == GetFileFromUrl \/ Unlink

\* downloads into a directory
SpecFetch == InitParse /\ [][NextFetch]_vars

----------------------------------------------------------------------------
(* xml.py: the text and label extractors.  A child element is a record of  *)
(* its tag and of what it carries: an rdf:resource, an xml:lang, a text.   *)
(* An element without content, <tag/>, has no text: lxml gives None.       *)

\* most children of the element handed to the extractors
MaxChildren == 3

\* Element.get: the attribute, or None
element_get(element, attribute) ==
    IF attribute \in DOMAIN element THEN element[attribute] ELSE None

\* Element.text
element_text(element) == element_get(element, "text")

\* Element.findall(tag)
findall(element, tag) == SelectSeq(element.children, LAMBDA c : c.tag = tag)

get_sub_element_as_str(element, tag, default_value) ==
    LET found == findall(element, tag)
    IN  IF found # <<>> THEN element_text(found[1]) ELSE default_value

\* the children of a list that carry a language, in order
InLanguage(sub_elements, lang) ==
    SelectSeq(sub_elements, LAMBDA c : element_get(c, "lang") = lang)

\* variant: the first child of a language wins
get_sub_elements_as_dict_first(element, tag) ==
    LET found == findall(element, tag)
    IN  [lang \in {element_get(c, "lang") : c \in Range(found)} |->
            element_text(InLanguage(found, lang)[1])]

\* the dict comprehension: a later child of a language replaces the entry
get_sub_elements_as_dict(element, tag) ==
    LET found == findall(element, tag)
    IN  [lang \in {element_get(c, "lang") : c \in Range(found)} |->
            LET same == InLanguage(found, lang)
            IN  element_text(same[Len(same)])]

\* the defaultdict(list): each child is appended to the list of its language
get_sub_elements_as_dict_of_lists(element, tag) ==
    LET found == findall(element, tag)
    IN  [lang \in {element_get(c, "lang") : c \in Range(found)} |->
            MapSeq(element_text, InLanguage(found, lang))]

\* children an element can have: labels in two languages, one of them
\* twice, a label without xml:lang, an empty label, a notation, an empty
\* notation, a reference
SubElements ==
    { [tag |-> "prefLabel", lang |-> "en", text |-> "tree"],
      [tag |-> "prefLabel", lang |-> "en", text |-> "wood"],
      [tag |-> "prefLabel", lang |-> "fr", text |-> "arbre"],
      [tag |-> "prefLabel", text |-> "baum"],
      [tag |-> "prefLabel", lang |-> "fr"],
      [tag |-> "notation", text |-> "A.1"],
      [tag |-> "notation"],
      [tag |-> "broader", resource |-> "b"] }

\* tags the extractors are asked for; no element has a scopeNote
ExtractTags == {"prefLabel", "notation", "broader", "scopeNote"}

ExtractElements ==
    {[tag |-> "Concept", children |-> children] :
        children \in SeqsUpTo(SubElements, MaxChildren)}
    \cup {[tag |-> "Concept", about |-> "a", children |-> children] :
             children \in SeqsUpTo(SubElements, MaxChildren)}

\* an element is handed to the extractors
TakeElement ==
    /\ extracted = NoResponse
    /\ xml_element' \in ExtractElements
    /\ extracted' = [op |-> "element"]
    /\ UNCHANGED <<service_vars, edge_vars, engine_vars, fetch_vars,
                   scheme_vars, migration_vars, neo_vars>>

\* all extractors are applied to it for one tag
Extract ==
    /\ extracted.op = "element"
    /\ \E tag \in ExtractTags :
           extracted' =
               [op |-> "extract", tag |-> tag,
                about |-> get_element_attribute(xml_element, "about", ""),
                resources |->
                    get_sub_element_attributes(xml_element, tag,
                                               "resource", ""),
                as_str |-> get_sub_element_as_str(xml_element, tag, ""),
                as_dict |-> get_sub_elements_as_dict(xml_element, tag),
                as_dict_of_lists |->
                    get_sub_elements_as_dict_of_lists(xml_element, tag)]
    /\ UNCHANGED <<service_vars, edge_vars, engine_vars, fetch_vars,
                   scheme_vars, xml_element, migration_vars, neo_vars>>

NextExtract == TakeElement \/ Extract

\* the extractors on every element of up to MaxChildren children
SpecExtract == InitParse /\ [][NextExtract]_vars

----------------------------------------------------------------------------
(* database.py: save_concept_scheme_file and get_concepts_for_scheme, on   *)
(* the tables concept_schemes, concepts and relationships with their       *)
(* integer primary keys.                                                   *)

\* longest concepts_names list
MaxConcepts == 2

\* the value of an id that was not assigned yet, and of an empty column
NULL == 0

\* the id the database gives the next row of a table
next_id(rows) == Cardinality(rows) + 1

RelationshipTuple(source_concept, destination_concept, relationship_type) ==
    [source_concept |-> source_concept,
     destination_concept |-> destination_concept,
     relationship_type |-> relationship_type]

\* the concepts the loop adds.  The scheme is added to the session but not
\* flushed when the first Concept is built, so concept_scheme.id is still
\* unassigned there; the flush after the first concept assigns it.
new_concepts(d, concepts_names) ==
    [i \in 1..Len(concepts_names) |->
        [id |-> next_id(d.concepts) + i - 1,
         name |-> concepts_names[i],
         scheme_id |-> IF i = 1 THEN NULL
                       ELSE next_id(d.concept_schemes)]]

\* concept_map after the loop: a name maps to the id of its last concept
concept_map_of(concepts) ==
    [name \in {concepts[i].name : i \in 1..Len(concepts)} |->
        LET at == {i \in 1..Len(concepts) : concepts[i].name = name}
        IN  concepts[CHOOSE i \in at : \A j \in at : j <= i].id]

new_relationships(d, concept_map, relationship_tuples) ==
    [i \in 1..Len(relationship_tuples) |->
        [id |-> next_id(d.relationships) + i - 1,
         source_concept_id |->
             concept_map[relationship_tuples[i].source_concept],
         destination_concept_id |->
             concept_map[relationship_tuples[i].destination_concept],
         relationship_type |-> relationship_tuples[i].relationship_type]]

\* a tuple names a concept that is not in concept_map: KeyError
unknown_concept(concept_map, relationship_tuples) ==
    \E i \in 1..Len(relationship_tuples) :
        \/ relationship_tuples[i].source_concept \notin DOMAIN concept_map
        \/ relationship_tuples[i].destination_concept
               \notin DOMAIN concept_map

\* variant: the scheme and the concepts are committed before the
\* relationships are built
save_concept_scheme_file_early(d, concept_scheme_name, concepts_names, relationship_tuples) ==
    LET concepts == new_concepts(d, concepts_names)
        concept_map == concept_map_of(concepts)
        with_concepts ==
            [d EXCEPT !.concept_schemes =
                          @ \cup {[id |-> next_id(d.concept_schemes),
                                   name |-> concept_scheme_name]},
                      !.concepts = @ \cup Range(concepts)]
    IN  IF unknown_concept(concept_map, relationship_tuples)
        THEN [raised |-> TRUE, error |-> "KeyError", db |-> with_concepts]
        ELSE [raised |-> FALSE, error |-> "",
              db |-> [with_concepts EXCEPT !.relationships =
                          @ \cup Range(new_relationships(
                                           d, concept_map,
                                           relationship_tuples))]]

\* save_concept_scheme_file: one session, one commit at the end; an
\* exception leaves the with block without a commit and the session rolls
\* back what was flushed
save_concept_scheme_file(d, concept_scheme_name, concepts_names, relationship_tuples) ==
    LET concepts == new_concepts(d, concepts_names)
        concept_map == concept_map_of(concepts)
    IN  IF unknown_concept(concept_map, relationship_tuples)
        THEN [raised |-> TRUE, error |-> "KeyError", db |-> d]
        ELSE [raised |-> FALSE, error |-> "",
              db |-> [concept_schemes |->
                          d.concept_schemes
                              \cup {[id |-> next_id(d.concept_schemes),
                                     name |-> concept_scheme_name]},
                      concepts |-> d.concepts \cup Range(concepts),
                      relationships |->
                          d.relationships
                              \cup Range(new_relationships(
                                             d, concept_map,
                                             relationship_tuples))]]

\* get_concepts_for_scheme: .one() on the schemes of the name, then its
\* concepts ordered by id
get_concepts_for_scheme(d, scheme_name) ==
    LET found == {cs \in d.concept_schemes : cs.name = scheme_name}
    IN  IF found = {} THEN [raised |-> TRUE, error |-> "NoResultFound"]
        ELSE IF Cardinality(found) > 1
        THEN [raised |-> TRUE, error |-> "MultipleResultsFound"]
        ELSE LET scheme == CHOOSE cs \in found : TRUE
             IN  [raised |-> FALSE,
                  value |-> {c \in d.concepts : c.scheme_id = scheme.id}]

SchemeNames == {"scheme1", "scheme2"}

ConceptNames == {"a", "b"}

\* relationship lists: none, one between a and b, one that names a concept
\* no list has
RelationshipLists ==
    { <<>>,
      <<RelationshipTuple("a", "b", "broader")>>,
      <<RelationshipTuple("a", "z", "broader")>> }

\* a concept scheme file is saved under a name that is not stored yet
SaveConceptSchemeFile ==
    /\ \E concept_scheme_name \in SchemeNames,
          concepts_names \in SeqsUpTo(ConceptNames, MaxConcepts),
          relationship_tuples \in RelationshipLists :
           LET result == save_concept_scheme_file(scheme_db,
                                                  concept_scheme_name,
                                                  concepts_names,
                                                  relationship_tuples)
           IN  /\ \A cs \in scheme_db.concept_schemes :
                      cs.name # concept_scheme_name
               /\ scheme_db' = result.db
               /\ scheme_saved' =
                      [op |-> "save_concept_scheme_file",
                       concept_scheme_name |-> concept_scheme_name,
                       concepts_names |-> concepts_names,
                       relationship_tuples |-> relationship_tuples,
                       before |-> scheme_db,
                       raised |-> result.raised, error |-> result.error]
    /\ UNCHANGED <<service_vars, edge_vars, engine_vars, fetch_vars,
                   extract_vars, migration_vars, neo_vars>>

\* concept scheme files saved one after the other
SpecSchemeFile == InitParse /\ [][SaveConceptSchemeFile]_vars

----------------------------------------------------------------------------
(* alembic/versions/5233d5762475: altLabels from dict[str, str] to         *)
(* dict[str, list[str]].  A dict is a function on its keys; {} is the      *)
(* function on no key.  dict(row) is taken as the mapping of the selected  *)
(* columns.                                                                *)

\* {key: [value] for key, value in x.items()}
to_list(x) == [key \in DOMAIN x |-> <<x[key]>>]

\* variant: only the English entry is taken back
from_list_english(x) == [key \in DOMAIN x \cap {"en"} |-> x[key][1]]

\* {key: value[0] for key, value in x.items()}
from_list(x) == [key \in DOMAIN x |-> x[key][1]]

\* update_rows: each row whose altLabels is not {} gets new_alt_labels,
\* what update_func makes of its altLabels
update_rows(column, new_alt_labels) ==
    [iri \in DOMAIN column |->
        IF DOMAIN column[iri] # {} THEN new_alt_labels[iri]
        ELSE column[iri]]

upgrade(column) ==
    update_rows(column, [iri \in DOMAIN column |-> to_list(column[iri])])

downgrade(column) ==
    update_rows(column, [iri \in DOMAIN column |-> from_list(column[iri])])

\* altLabels values of the initial schema: no label, one language, two
AltLabelDicts ==
    { <<>>, [en |-> "tree"], [fr |-> "arbre"],
      [en |-> "wood", fr |-> "bois"] }

InitConcepts ==
    /\ Init
    /\ datasets = <<>>

\* at the initial revision a concept is stored with its altLabels
StoreAltLabels ==
    /\ revision = InitialMigration
    /\ \E iri \in ConceptRows, labels \in AltLabelDicts :
           /\ DOMAIN alt_labels[iri] = {}
           /\ DOMAIN labels # {}
           /\ alt_labels' = [alt_labels EXCEPT ![iri] = labels]
    /\ migrated' = NoResponse
    /\ UNCHANGED <<service_vars, edge_vars, engine_vars, fetch_vars,
                   extract_vars, scheme_vars, revision, neo_vars>>

Upgrade ==
    /\ revision = InitialMigration
    /\ alt_labels' = upgrade(alt_labels)
    /\ revision' = UpdateAltLabelsToList
    /\ migrated' = [op |-> "upgrade", before |-> alt_labels]
    /\ UNCHANGED <<service_vars, edge_vars, engine_vars, fetch_vars,
                   extract_vars, scheme_vars, neo_vars>>

Downgrade ==
    /\ revision = UpdateAltLabelsToList
    /\ alt_labels' = downgrade(alt_labels)
    /\ revision' = InitialMigration
    /\ migrated' = [op |-> "downgrade", before |-> alt_labels,
                    upgraded_from |-> migrated.before]
    /\ UNCHANGED <<service_vars, edge_vars, engine_vars, fetch_vars,
                   extract_vars, scheme_vars, neo_vars>>

NextMigration == StoreAltLabels \/ Upgrade \/ Downgrade

\* the migration run forth and back on the stored concepts
SpecMigration == InitConcepts /\ [][NextMigration]_vars

----------------------------------------------------------------------------
(* neo.py: load_services_dataset.  A node is its label and its iri, an     *)
(* edge its type and the iris of its two ends.  A query is the list of     *)
(* its MERGE clauses; the lists of the model are shorter than one chunk.   *)

\* build_nodes_import_query_and_args: one MERGE per node
build_nodes_import_query_and_args(labels, nodes) ==
    MapSeq(LAMBDA node : [label |-> labels[1], iri |-> node.iri], nodes)

\* build_edges_import_query_and_args: both ends are matched by label and
\* iri, the edge is merged with the labels joined
build_edges_import_query_and_args(labels, edges) ==
    MapSeq(LAMBDA edge :
               [source |-> [label |-> edge[1], iri |-> edge[2]],
                target |-> [label |-> edge[3], iri |-> edge[4]],
                type |-> labels[1]],
           edges)

\* driver.execute_query of a node import
merge_nodes(g, query) == [g EXCEPT !.nodes = @ \cup Range(query)]

\* driver.execute_query of an edge import: without a match of both ends
\* nothing is merged
merge_edges(g, query) ==
    [g EXCEPT !.edges = @ \cup
        { [type |-> clause.type, source |-> clause.source.iri,
           target |-> clause.target.iri] :
          clause \in {c \in Range(query) :
                         {c.source, c.target} \subseteq g.nodes} }]

\* the edge query of one relation as the loop builds it
relation_edge_query(semantic_relations, semantic_relation) ==
    LET edge_type == semantic_relations[1].type
        edge == <<"Concept", semantic_relation.source_concept_iri,
                  "Concept", semantic_relation.target_concept_iri>>
    IN  build_edges_import_query_and_args(<<edge_type>>, <<edge>>)

\* the queries of a loop, run one after the other
RECURSIVE execute_queries(_, _)
execute_queries(g, queries) ==
    IF queries = <<>> THEN g
    ELSE execute_queries(merge_edges(g, Head(queries)), Tail(queries))

load_services_dataset(g, parsed) ==
    IF parsed.concept_schemes = <<>>
    THEN [raised |-> "IndexError", graph |-> g]
    ELSE LET main_concept_scheme == parsed.concept_schemes[1]
             with_schemes ==
                 merge_nodes(g, build_nodes_import_query_and_args(
                                    <<"ConceptScheme">>,
                                    parsed.concept_schemes))
             with_concepts ==
                 merge_nodes(with_schemes,
                             build_nodes_import_query_and_args(
                                 <<"Concept">>, parsed.concepts))
             with_in_scheme ==
                 execute_queries(
                     with_concepts,
                     MapSeq(LAMBDA concept :
                                build_edges_import_query_and_args(
                                    <<"inScheme">>,
                                    << <<"Concept", concept.iri,
                                         "ConceptScheme",
                                         main_concept_scheme.iri>> >>),
                            parsed.concepts))
         IN  [raised |-> None,
              graph |->
                  execute_queries(
                      with_in_scheme,
                      MapSeq(LAMBDA semantic_relation :
                                 relation_edge_query(
                                     parsed.semantic_relations,
                                     semantic_relation),
                             parsed.semantic_relations))]

\* a scheme and two concepts with relations of two types between them
NeoElements ==
    { El("ConceptScheme", "s1", <<>>),
      El("Concept", "a", <<Ch("inScheme", "s1"), Ch("broader", "b")>>),
      El("Concept", "b", <<Ch("related", "a")>>) }

\* what parse_dataset returns for the saved ontologies
NeoParsed ==
    {parse_dataset(root) : root \in SeqsUpTo(NeoElements, MaxElements)}

LoadServicesDataset ==
    /\ \E parsed \in NeoParsed :
           LET result == load_services_dataset(graph, parsed)
           IN  /\ graph' = result.graph
               /\ neo_loaded' =
                      [op |-> "load_services_dataset",
                       raised |-> result.raised,
                       semantic_relations |-> parsed.semantic_relations]
    /\ UNCHANGED <<service_vars, edge_vars, engine_vars, fetch_vars,
                   extract_vars, scheme_vars, migration_vars>>

\* datasets loaded into one Neo4j instance, one after the other
SpecNeo == InitConcepts /\ [][LoadServicesDataset]_vars

----------------------------------------------------------------------------
(* What a source document declares, read off its elements *)

Elements(url, tags) == {element \in Source(url) : element.tag \in tags}

\* the rdf:resource values of the children of an element with a tag
Refs(element, tag) ==
    {element.children[i].resource :
        i \in {j \in 1..Len(element.children) : element.children[j].tag = tag}}

DeclaredSchemes(url) ==
    {element.about : element \in Elements(url, {"ConceptScheme"})}

DeclaredMembers(url) ==
    {[iri |-> element.about,
      member_type |-> IF element.tag = "Concept" THEN MemberType.CONCEPT
                      ELSE MemberType.COLLECTION] :
        element \in Elements(url, {"Concept", "Collection"})}

DeclaredRelations(url) ==
    UNION {{[type |-> relation_type,
             source_concept_iri |-> element.about,
             target_concept_iri |-> target] : target \in Refs(element, relation_type)} :
           element \in Elements(url, {"Concept"}),
           relation_type \in Range(SemanticRelationType)}

DeclaredInScheme(url) ==
    UNION {{[scheme_iri |-> scheme, member_iri |-> element.about] :
               scheme \in Refs(element, "inScheme") \cap DeclaredSchemes(url)} :
           element \in Elements(url, {"Concept", "Collection"})}

\* the members the stored edges give a collection
MembersOf(d, collection_iri) ==
    {edge.member_iri :
        edge \in {e \in d.in_collection : e.collection_iri = collection_iri}}

\* positions of the running / last call by how the dataset ended
SavedAt == {i \in 1..Len(stages) : stages[i] = "ok"}
FailedAt == {i \in 1..Len(stages) : stages[i] # "ok"}

\* sub-sequence of s at the positions of keep, in order
RECURSIVE Pick(_, _, _)
Pick(s, keep, n) ==
    IF n = 0 THEN <<>>
    ELSE IF n \in keep THEN Append(Pick(s, keep, n - 1), s[n])
    ELSE Pick(s, keep, n - 1)

\* str(error) of the exception raised at a stage
ErrorOf(stage) ==
    CASE stage = "fetch" -> FetchError
      [] stage = "parse" -> ParseError
      [] stage = "persist" -> "IntegrityError"

InCall == pc \in {"loop", "returned"}

\* the dataset at position i is the first of its URL in the call
FirstOfUrl(i) == \A j \in 1..(i - 1) : datasets[j].url # datasets[i].url

----------------------------------------------------------------------------
(* Claims *)

\* C1: a dataset that fails to download, parse or persist does not stop
\* init_datasets: every configured dataset is processed, the call returns,
\* saved_datasets lists exactly the datasets that were saved and
\* failed_datasets exactly the others, each with its name, its url and the
\* text of its error, both in configuration order; with exactly one failure
\* among N datasets that is N-1 saved records and one failed record.
C1_FailureIsolated ==
    /\ InCall => /\ Len(stages) = idx - 1
                 /\ saved_datasets = Pick(datasets, SavedAt, Len(stages))
                 /\ failed_datasets =
                        Pick([i \in 1..Len(stages) |->
                                 FailedDataset(datasets[i].name, datasets[i].url,
                                               ErrorOf(stages[i]))],
                             FailedAt, Len(stages))
    /\ pc = "returned" =>
           /\ Len(stages) = Len(datasets)
           /\ Len(saved_datasets) + Len(failed_datasets) = Len(datasets)
           /\ Cardinality(FailedAt) = 1 =>
                  /\ Len(saved_datasets) = Len(datasets) - 1
                  /\ Len(failed_datasets) = 1

\* a call returned after its first dataset failed to download and its
\* second one was saved
C1_Witness ==
    /\ pc = "returned"
    /\ stages = <<"fetch", "ok">>
    /\ Len(saved_datasets) = 1
    /\ Len(failed_datasets) = 1
    /\ failed_datasets[1].error = FetchError

\* C2: during and after a call, every row declared by a dataset reported
\* saved is in the graph, and no row that only a failed dataset declares is.
C2_FailedLeavesNoRows ==
    InCall =>
        /\ \A i \in SavedAt :
               /\ DeclaredSchemes(datasets[i].url) \subseteq db.concept_schemes
               /\ DeclaredMembers(datasets[i].url) \subseteq db.collection_members
               /\ DeclaredRelations(datasets[i].url) \subseteq db.semantic_relations
               /\ DeclaredInScheme(datasets[i].url) \subseteq db.in_scheme
        /\ \A i \in FailedAt :
               LET others == {datasets[j].url : j \in SavedAt}
               IN  /\ (DeclaredSchemes(datasets[i].url)
                           \ UNION {DeclaredSchemes(u) : u \in others})
                          \cap db.concept_schemes = {}
                   /\ (DeclaredMembers(datasets[i].url)
                           \ UNION {DeclaredMembers(u) : u \in others})
                          \cap db.collection_members = {}
                   /\ (DeclaredRelations(datasets[i].url)
                           \ UNION {DeclaredRelations(u) : u \in others})
                          \cap db.semantic_relations = {}

\* a dataset with valid concept rows failed at the commit after another
\* dataset was saved
C2_Witness ==
    /\ pc = "returned"
    /\ stages = <<"ok", "persist">>
    /\ datasets[1].name = "sample.rdf"
    /\ datasets[2].name = "typed.rdf"
    /\ DeclaredMembers("u/sample") \subseteq db.collection_members

\* C3: a request served while init_datasets runs is answered from the graph
\* as it was before the call or as it is after the call, never from a
\* dropped or partly loaded graph.
C3_ReadsSeeWholeGraph ==
    (pc = "returned" /\ in_call) =>
        response.result \in {Answer(response.op, response.iri, graph_at_call),
                             Answer(response.op, response.iri, db)}

\* C4: a call with reload = false does not drop the graph: the rows stored
\* before the call are still stored after it.
C4_NoReloadKeepsRows ==
    (pc = "returned" /\ ~reload) =>
        /\ graph_at_call.concept_schemes \subseteq db.concept_schemes
        /\ graph_at_call.collection_members \subseteq db.collection_members
        /\ graph_at_call.in_scheme \subseteq db.in_scheme
        /\ graph_at_call.in_collection \subseteq db.in_collection
        /\ graph_at_call.semantic_relations \subseteq db.semantic_relations

\* C5: after a call with reload = true the graph holds exactly the schemes,
\* members and relations of the datasets reported saved, and only edges
\* that come from those datasets.
C5_ReloadLeavesSavedOnly ==
    (pc = "returned" /\ reload) =>
        LET urls == {datasets[i].url : i \in SavedAt}
        IN  /\ db.concept_schemes = UNION {DeclaredSchemes(u) : u \in urls}
            /\ db.collection_members = UNION {DeclaredMembers(u) : u \in urls}
            /\ db.semantic_relations = UNION {DeclaredRelations(u) : u \in urls}
            /\ db.in_scheme = UNION {DeclaredInScheme(u) : u \in urls}
            /\ \A edge \in db.in_collection :
                   \E u \in urls :
                   \E element \in Elements(u, {"Collection"}) :
                       /\ element.about = edge.collection_iri
                       /\ edge.member_iri \in Refs(element, "member")

\* a reload returned on a graph that held rows of an earlier call which the
\* new call did not save again
C5_Witness ==
    /\ pc = "returned"
    /\ reload
    /\ SavedAt # {}
    /\ ~(graph_at_call.collection_members \subseteq db.collection_members)

C7_ForwardReferenceResolves ==
    InCall =>
        \A i \in SavedAt :
        \A element \in Elements(datasets[i].url, {"Collection"}) :
            LET refs == Refs(element, "member")
                local == refs \cap Iris(DeclaredMembers(datasets[i].url))
            IN  /\ local \subseteq MembersOf(db, element.about)
                /\ MembersOf(db, element.about) \subseteq refs
                /\ (datasets[i].name = "sample.rdf" /\ element.about = "c1")
                       => MembersOf(db, element.about) = {"a", "c2"}

\* the sample was saved and its collection c1 is served with the concept a
\* and the nested collection c2
C7_Witness ==
    /\ InCall
    /\ \E i \in SavedAt : datasets[i].name = "sample.rdf"
    /\ get_collection(db, "c1") =
           Returned([iri |-> "c1", collections |-> {"c2"}, concepts |-> {"a"}])

\* C8: a dataset whose collections reference no member or only members that
\* are stored nowhere is saved, and those collections are stored with zero
\* resolved members.
C8_UnresolvableMembersSaveEmpty ==
    InCall =>
        \A i \in 1..Len(stages) :
            /\ (/\ datasets[i].name = "extern.rdf"
                /\ FirstOfUrl(i)
                /\ stages[i] \in {"persist", "ok"}) => stages[i] = "ok"
            /\ stages[i] = "ok" =>
                   \A element \in Elements(datasets[i].url, {"Collection"}) :
                       Refs(element, "member") \cap Iris(db.collection_members) = {}
                           => MembersOf(db, element.about) = {}

\* the second document was saved: its collection of unknown members and its
\* collection without members are stored and have no resolved member
C8_Witness ==
    /\ InCall
    /\ \E i \in SavedAt : datasets[i].name = "extern.rdf"
    /\ {"c3", "c4"} \subseteq CollectionIris(db)
    /\ MembersOf(db, "c3") = {}
    /\ MembersOf(db, "c4") = {}

\* C9: relations that differ only in their type coexist: a dataset that
\* declares two of them between the same ordered pair of concepts is saved
\* and both rows are stored.
C9_RelationsDifferingInTypeCoexist ==
    InCall =>
        \A i \in 1..Len(stages) :
            (/\ datasets[i].name = "typed.rdf"
             /\ FirstOfUrl(i)
             /\ stages[i] \in {"persist", "ok"})
            => /\ stages[i] = "ok"
               /\ DeclaredRelations("u/typed") \subseteq db.semantic_relations

\* C10: in every committed state each in_scheme edge references a stored
\* scheme and a stored member, each in_collection edge a stored collection
\* and a stored member, and each relation two stored concepts.
C10_ReferentialIntegrity ==
    /\ \A edge \in db.in_scheme :
           /\ edge.scheme_iri \in db.concept_schemes
           /\ edge.member_iri \in Iris(db.collection_members)
    /\ \A edge \in db.in_collection :
           /\ edge.collection_iri \in CollectionIris(db)
           /\ edge.member_iri \in Iris(db.collection_members)
    /\ \A relation \in db.semantic_relations :
           /\ relation.source_concept_iri \in ConceptIris(db)
           /\ relation.target_concept_iri \in ConceptIris(db)

\* a graph with edges and relations, after a dataset with a dangling
\* relation target was refused
C10_Witness ==
    /\ pc = "returned"
    /\ stages = <<"ok", "persist">>
    /\ datasets[2].name = "dangling.rdf"
    /\ db.in_scheme # {}
    /\ db.in_collection # {}
    /\ db.semantic_relations # {}

----------------------------------------------------------------------------
(* What the document handed to the parser contains *)

HasParsed == parsed_dataset # NotParsed

\* positions of the top-level elements with one of the tags
Positions(tags) == {i \in 1..Len(xml_root) : xml_root[i].tag \in tags}

\* rdf:about of the elements with one of the tags, in document order
AboutsInOrder(tags) ==
    Pick([i \in 1..Len(xml_root) |-> xml_root[i].about], Positions(tags),
         Len(xml_root))

\* number of children with one of child_tags under the elements with one of
\* tags
ChildCount(tags, child_tags) ==
    Cardinality(UNION {{<<i, j>> : j \in {k \in 1..Len(xml_root[i].children) :
                                      xml_root[i].children[k].tag \in child_tags}} :
                       i \in Positions(tags)})

\* number of positions of s that satisfy P
Count(s, P(_)) == Cardinality({i \in 1..Len(s) : P(s[i])})

\* <<about, resource>> for the first n children of an element that have the
\* tag, in order
RECURSIVE ChildEdges(_, _, _)
ChildEdges(element, child_tag, n) ==
    IF n = 0 THEN <<>>
    ELSE ChildEdges(element, child_tag, n - 1)
             \o (IF element.children[n].tag = child_tag
                 THEN <<(<<element.about, element.children[n].resource>>)>>
                 ELSE <<>>)

\* the same over the first n top-level elements that have one of the tags
RECURSIVE ElementEdges(_, _, _)
ElementEdges(tags, child_tag, n) ==
    IF n = 0 THEN <<>>
    ELSE ElementEdges(tags, child_tag, n - 1)
             \o (IF xml_root[n].tag \in tags
                 THEN ChildEdges(xml_root[n], child_tag,
                                 Len(xml_root[n].children))
                 ELSE <<>>)

\* C11: parse_dataset returns one scheme per ConceptScheme element, one
\* concept per Concept element and one collection per Collection element,
\* each list in document order; as many relations as there are references
\* under the five relation tags of the Concept elements, as many in-scheme
\* edges as inScheme tags and as many in-collection edges as member tags of
\* the Collection and Concept elements.
C11_ParseCounts ==
    HasParsed =>
        /\ MapSeq(LAMBDA x : x.iri, parsed_dataset.concept_schemes)
               = AboutsInOrder({"ConceptScheme"})
        /\ MapSeq(LAMBDA x : x.iri, parsed_dataset.concepts)
               = AboutsInOrder({"Concept"})
        /\ MapSeq(LAMBDA x : x.iri, parsed_dataset.collections)
               = AboutsInOrder({"Collection"})
        /\ \A x \in Range(parsed_dataset.concepts) :
               x.member_type = MemberType.CONCEPT
        /\ \A x \in Range(parsed_dataset.collections) :
               x.member_type = MemberType.COLLECTION
        /\ Len(parsed_dataset.semantic_relations)
               = ChildCount({"Concept"}, Range(SemanticRelationType))
        /\ Len(parsed_dataset.in_schemes)
               = ChildCount({"Collection", "Concept"}, {"inScheme"})
        /\ Len(parsed_dataset.in_collections)
               = ChildCount({"Collection", "Concept"}, {"member"})

\* a document with a scheme, two concepts and a collection was parsed
C11_Witness ==
    /\ HasParsed
    /\ Len(xml_root) = 4
    /\ Len(parsed_dataset.concept_schemes) = 1
    /\ MapSeq(LAMBDA x : x.iri, parsed_dataset.concepts) = <<"b", "a">>
    /\ Len(parsed_dataset.collections) = 1
    /\ Len(parsed_dataset.semantic_relations) = 3
    /\ Len(parsed_dataset.in_schemes) = 3
    /\ Len(parsed_dataset.in_collections) = 2

\* C12: for a Concept element the extraction gives one relation per
\* reference under each relation tag, with the concept as source, the
\* reference as target and the tag as type, and nothing else (no inverse):
\* none for a concept without relation tags, three broader relations for
\* three broader targets.  xml.py and model.py agree.
C12_RelationPerReference ==
    /\ \A i \in Positions({"Concept"}) :
           LET element == xml_root[i]
               relations == semantic_relations_from_xml(element)
               relation_tags == Range(SemanticRelationType)
           IN  /\ relations = SemanticRelation_from_xml_element(element)
               /\ Len(relations) =
                      Count(element.children, LAMBDA c : c.tag \in relation_tags)
               /\ \A r \in Range(relations) :
                      /\ r.source_concept_iri = element.about
                      /\ Count(relations, LAMBDA x : x = r) =
                             Count(element.children,
                                   LAMBDA c : /\ c.tag = r.type
                                              /\ c.resource = r.target_concept_iri)
               /\ element.about = "b" => relations = <<>>
               /\ element.about = "a" =>
                      /\ Len(relations) = 3
                      /\ \A r \in Range(relations) : r.type = "broader"
    /\ HasParsed =>
           \A r \in Range(parsed_dataset.semantic_relations) :
               \E i \in Positions({"Concept"}) :
               \E c \in Range(xml_root[i].children) :
                   /\ xml_root[i].about = r.source_concept_iri
                   /\ c.tag = r.type
                   /\ c.resource = r.target_concept_iri

\* the concept with three broader targets and the concept without
\* children were parsed
C12_Witness ==
    /\ HasParsed
    /\ MapSeq(LAMBDA x : x.iri, parsed_dataset.concepts) = <<"a", "b">>
    /\ parsed_dataset.semantic_relations =
           <<[type |-> "broader", source_concept_iri |-> "a",
              target_concept_iri |-> "b"],
             [type |-> "broader", source_concept_iri |-> "a",
              target_concept_iri |-> "c"],
             [type |-> "broader", source_concept_iri |-> "a",
              target_concept_iri |-> "d"]>>

\* C19: the in-scheme edges of the parsed result are, for the Collection
\* elements in document order and then for the Concept elements in document
\* order, one edge per inScheme reference of the element, from the element
\* to the referenced scheme.
C19_InSchemeEdges ==
    HasParsed =>
        MapSeq(LAMBDA edge : <<edge.member_iri, edge.scheme_iri>>,
               parsed_dataset.in_schemes)
            = ElementEdges({"Collection"}, "inScheme", Len(xml_root))
                  \o ElementEdges({"Concept"}, "inScheme", Len(xml_root))

\* a concept in two schemes came before a collection in two schemes in the
\* document, and the edges of the collection come first
C19_Witness ==
    /\ HasParsed
    /\ MapSeq(LAMBDA e : e.about, xml_root) = <<"a", "c2">>
    /\ MapSeq(LAMBDA edge : <<edge.member_iri, edge.scheme_iri>>,
              parsed_dataset.in_schemes)
           = << <<"c2", "s2">>, <<"c2", "s1">>, <<"a", "s1">>, <<"a", "s2">> >>

\* C20: every in-collection edge returned by parse_dataset starts at a
\* Collection element of the document, never at a Concept element.
C20_EdgesFromCollectionsOnly ==
    HasParsed =>
        \A edge \in Range(parsed_dataset.in_collections) :
            edge.collection_iri \in Range(AboutsInOrder({"Collection"}))

----------------------------------------------------------------------------
(* Labels and search *)

\* the labels a concept is matched on for a language: its prefLabel and its
\* altLabels in that language, each taken in English when the concept has
\* no entry for the language
LabelsFor(concept, lang) ==
    (IF lang \in DOMAIN concept.prefLabels THEN {concept.prefLabels[lang]}
     ELSE IF "en" \in DOMAIN concept.prefLabels THEN {concept.prefLabels["en"]}
     ELSE {})
    \cup
    (IF lang \in DOMAIN concept.altLabels THEN Range(concept.altLabels[lang])
     ELSE IF "en" \in DOMAIN concept.altLabels THEN Range(concept.altLabels["en"])
     ELSE {})

\* C13: get_in_language(L, l) is L[l] when l is a key of L, else L["en"]
\* when "en" is a key, else the empty string, and likewise with the empty
\* list for get_in_language_list; for l not in L the result is the result
\* for "en"; the dict looked up is still the stored one.
C13_LanguageFallback ==
    looked # NoResponse =>
        LET L == looked.attribute
            LL == looked.list_attribute
            l == looked.lang
        IN  /\ l \in DOMAIN L => looked.value = L[l]
            /\ (l \notin DOMAIN L /\ "en" \in DOMAIN L) => looked.value = L["en"]
            /\ (l \notin DOMAIN L /\ "en" \notin DOMAIN L) => looked.value = <<>>
            /\ l \notin DOMAIN L => looked.value = get_in_language(L, "en")
            /\ l \in DOMAIN LL => looked.list_value = LL[l]
            /\ (l \notin DOMAIN LL /\ "en" \in DOMAIN LL)
                   => looked.list_value = LL["en"]
            /\ (l \notin DOMAIN LL /\ "en" \notin DOMAIN LL)
                   => looked.list_value = <<>>
            /\ l \notin DOMAIN LL
                   => looked.list_value = get_in_language_list(LL, "en")
            /\ \E concept \in concepts_table :
                   /\ DOMAIN concept.prefLabels = DOMAIN L
                   /\ \A k \in DOMAIN L : concept.prefLabels[k] = L[k]
                   /\ DOMAIN concept.altLabels = DOMAIN LL
                   /\ \A k \in DOMAIN LL : concept.altLabels[k] = LL[k]

\* French was asked of dicts that have English only, and the English
\* values came back
C13_Witness ==
    /\ looked # NoResponse
    /\ looked.lang = "fr"
    /\ DOMAIN looked.attribute = {"en"}
    /\ DOMAIN looked.list_attribute = {"en"}
    /\ looked.value = <<"c", "a">>
    /\ Len(looked.list_value) = 2

\* C14: search_database(term, lang) returns exactly the stored concepts with
\* a prefLabel or an altLabel in lang that contains term, a concept without
\* an entry for lang being matched on its English labels; a concept that
\* matches through its English altLabel only is returned for a language it
\* lacks, and a term in no label returns nothing.
C14_SearchMatches ==
    search_response # NoResponse =>
        LET term == search_response.search_term
            lang == search_response.lang
            found == {concept.iri : concept \in search_response.result}
        IN  /\ found =
                   {concept.iri : concept \in
                       {k \in concepts_table :
                           \E label \in LabelsFor(k, lang) :
                               Contains(term, label)}}
            /\ term = <<"z">> => search_response.result = {}
            /\ (/\ term = <<"b", "d">>
                /\ lang = "fr"
                /\ "x" \in {concept.iri : concept \in concepts_table})
                   => "x" \in found

\* the term of one English altLabel, asked in French, returned that concept
\* alone from a table of four
C14_Witness ==
    /\ search_response # NoResponse
    /\ Cardinality(concepts_table) = 4
    /\ search_response.search_term = <<"b", "d">>
    /\ search_response.lang = "fr"
    /\ {concept.iri : concept \in search_response.result} = {"x"}

----------------------------------------------------------------------------
(* Relations of a concept *)

\* C15: the relations served for a concept are exactly the stored relations
\* whose source or whose target is the concept, each with its stored type,
\* source and target.  (The steps that leave db, pc and idx unchanged are
\* the requests and the stuttering steps.)
C15_RelationsBothDirections ==
    [][(/\ UNCHANGED <<db, pc, idx>>
        /\ response'.op = "get_concept"
        /\ response'.result.status_code = 200)
       => LET relations == response'.result.body.relations
          IN  /\ relations \subseteq db.semantic_relations
              /\ \A r \in db.semantic_relations :
                     r \in relations <=>
                         \/ r.source_concept_iri = response'.iri
                         \/ r.target_concept_iri = response'.iri]_vars

\* the concept b, which is only the target of a relation, was served with
\* that relation
C15_Witness ==
    /\ response.op = "get_concept"
    /\ response.iri = "b"
    /\ response.result.status_code = 200
    /\ response.result.body.relations =
           {[type |-> "broader", source_concept_iri |-> "a",
             target_concept_iri |-> "b"]}

----------------------------------------------------------------------------
(* The API key *)

\* the reply in auth_response came from get_api_key, directly or through
\* the route, and not from the header check in front of it
Checked ==
    /\ auth_response.op # "none"
    /\ ~(auth_response.status_code = FORBIDDEN
         /\ auth_response.detail = "Not authenticated")

C18_KeyIsEnvironmentAtCall ==
    (/\ auth_response.op = "get_api_key"
     /\ auth_response.environ.set
     /\ auth_response.api_key = auth_response.environ.API_KEY)
    => /\ auth_response.status_code = OK
       /\ auth_response.body = [api_key |-> auth_response.api_key]

----------------------------------------------------------------------------
(* The lifecycle of a dataset within a call *)

\* EMPTY before its iteration, LOADING during it, READY or FAILED once the
\* iteration has appended its record
Status(i) ==
    IF ~InCall \/ i > idx THEN "EMPTY"
    ELSE IF i = idx THEN "LOADING"
    ELSE IF stages[i] = "ok" THEN "READY" ELSE "FAILED"

Recorded == {"READY", "FAILED"}

\* the record of dataset i is the one appended to list, the other list
\* is left as it was
RecordedIn(list, other, i) ==
    /\ Len(list') = Len(list) + 1
    /\ SubSeq(list', 1, Len(list)) = list
    /\ list'[Len(list')].name = datasets[i].name
    /\ list'[Len(list')].url = datasets[i].url
    /\ other' = other

\* C17: within one call the datasets are taken one at a time in configured
\* order: at most one is LOADING, those before it are READY or FAILED and
\* those after it EMPTY; a step of the call either records the LOADING
\* dataset as saved or as failed and starts the next, or returns, and it
\* returns only after the last dataset; a recorded dataset keeps its status;
\* every call returns, with all datasets recorded.
C17_OneAtATimeInOrder ==
    /\ [](InCall =>
            /\ Cardinality({i \in 1..Len(datasets) : Status(i) = "LOADING"})
                   <= 1
            /\ \A i \in 1..Len(datasets) :
                   /\ Status(i) # "EMPTY" =>
                          \A j \in 1..(i - 1) : Status(j) \in Recorded
                   /\ Status(i) = "READY" =>
                          Dataset(datasets[i].name, datasets[i].url)
                              \in Range(saved_datasets)
                   /\ Status(i) = "FAILED" =>
                          \E f \in Range(failed_datasets) :
                              /\ f.name = datasets[i].name
                              /\ f.url = datasets[i].url
            /\ Len(saved_datasets) + Len(failed_datasets) =
                   Cardinality({i \in 1..Len(datasets) :
                                   Status(i) \in Recorded})
            /\ pc = "returned" =>
                   \A i \in 1..Len(datasets) : Status(i) \in Recorded)
    /\ [][pc = "loop" =>
             \/ /\ pc' = "returned"
                /\ idx > Len(datasets)
                /\ UNCHANGED <<idx, stages, saved_datasets, failed_datasets>>
             \/ /\ pc' = "loop"
                /\ idx <= Len(datasets)
                /\ \E i \in {idx} :
                       /\ Status(i) = "LOADING"
                       /\ \/ /\ Status(i)' = "READY"
                             /\ RecordedIn(saved_datasets, failed_datasets, i)
                          \/ /\ Status(i)' = "FAILED"
                             /\ RecordedIn(failed_datasets, saved_datasets, i)
                /\ \A i \in 1..Len(datasets) :
                       /\ i = idx + 1 =>
                              /\ Status(i) = "EMPTY"
                              /\ Status(i)' = "LOADING"
                       /\ i \notin {idx, idx + 1} => Status(i)' = Status(i)]_vars
    /\ (pc = "loop") ~> (pc = "returned")

\* a call over two datasets returned, the first READY, the second FAILED
C17_Witness ==
    /\ pc = "returned"
    /\ Len(datasets) = 2
    /\ stages = <<"ok", "persist">>
    /\ Status(1) = "READY"
    /\ Status(2) = "FAILED"
    /\ Len(saved_datasets) = 1
    /\ Len(failed_datasets) = 1

----------------------------------------------------------------------------
(* Members by type *)

\* the member rows the saved datasets of the call were parsed into
CreatedMembers == UNION {DeclaredMembers(datasets[i].url) : i \in SavedAt}

\* the member IRIs the stored edges give the entity of a request
EntityMembers(op, iri) ==
    IF op = "get_concept_scheme"
    THEN {e.member_iri : e \in {x \in db.in_scheme : x.scheme_iri = iri}}
    ELSE MembersOf(db, iri)

----------------------------------------------------------------------------
(* Membership edges *)

\* C22: whatever datasets were loaded, no (scheme_iri, member_iri) is in
\* in_scheme more than once and no (collection_iri, member_iri) is in
\* in_collection more than once; a batch that would add a second copy, of a
\* row it holds twice or of a stored row, stores nothing.
C22_NoDuplicateMembership ==
    /\ \A row \in BagToSet(in_scheme_table) :
           CopiesIn(row, in_scheme_table) = 1
    /\ \A row \in BagToSet(in_collection_table) :
           CopiesIn(row, in_collection_table) = 1

\* a batch with an edge that is already stored was refused, and the stored
\* edge is still there once
C22_Witness ==
    /\ edges_saved.op = "save_dataset"
    /\ edges_saved.raised
    /\ \E i \in 1..Len(edges_saved.in_schemes) :
           BagIn(edges_saved.in_schemes[i], in_scheme_table)
    /\ BagIn([collection_iri |-> "c1", member_iri |-> "a"],
             in_collection_table)

----------------------------------------------------------------------------
(* init_engine *)

\* the URL a call works on: the argument, or DATABASE_URL when none is
\* passed
UrlOfCall ==
    IF engine_result.database_url = None THEN engine_result.environ
    ELSE engine_result.database_url

\* C23: init_engine raises ValueError and changes nothing when it has no
\* database URL (none passed and DATABASE_URL unset, or the URL it gets is
\* empty); in every other case, whether the database existed or not and
\* whatever the drop flag, it returns with the database existing and all
\* tables of the schema created, the other databases untouched, and the
\* stored rows are gone only when the database existed and the flag was set.
C23_InitEngine ==
    engine_result.op = "init_engine" =>
        LET before == engine_result.before
            after == engine_result.after
            flag == engine_result.drop_database_flag
        IN  /\ (engine_result.database_url = None
                /\ engine_result.environ = None) => engine_result.raised
            /\ engine_result.raised <=> UrlOfCall \in {None, ""}
            /\ engine_result.raised =>
                   /\ engine_result.error = "ValueError"
                   /\ after = before
            /\ ~engine_result.raised =>
                   /\ after[UrlOfCall].exists
                   /\ SchemaTables \subseteq after[UrlOfCall].tables
                   /\ \A url \in DatabaseUrls \ {UrlOfCall} :
                          after[url] = before[url]
                   /\ after[UrlOfCall].rows =
                          IF before[UrlOfCall].exists /\ flag THEN {}
                          ELSE before[UrlOfCall].rows

\* a call without the flag on a database that holds rows kept them, with
\* the URL taken from the environment
C23_Witness ==
    /\ engine_result.op = "init_engine"
    /\ engine_result.database_url = None
    /\ engine_result.environ \in DatabaseUrls
    /\ ~engine_result.drop_database_flag
    /\ ~engine_result.raised
    /\ engine_result.before[engine_result.environ].rows # {}
    /\ engine_result.after[engine_result.environ].rows =
           engine_result.before[engine_result.environ].rows

----------------------------------------------------------------------------
(* get_file_from_url *)

\* C24: a call that returns returns the content of the first archive member
\* when the Content-Type is application/zip and the response body
\* otherwise; with a file_output_path, the file at that path then holds
\* exactly the returned bytes and no other file changed, without one no file
\* changed; a response with an HTTP error status makes the call raise, and a
\* call that raises leaves every file as it was.
C24_ReturnsWhatItWrites ==
    fetch_result.op = "get_file_from_url" =>
        LET http_response == fetch_result.response
            path == fetch_result.file_output_path
            before == fetch_result.before
            after == fetch_result.after
        IN  /\ raises_for_status(http_response) =>
                   /\ fetch_result.raised
                   /\ fetch_result.outcome = "HTTPError"
            /\ fetch_result.raised => after = before
            /\ ~fetch_result.raised =>
                   /\ fetch_result.outcome =
                          IF http_response.content_type = "application/zip"
                          THEN ZipFile(http_response.content)[1].data
                          ELSE http_response.content
                   /\ path # None => after[path] = fetch_result.outcome
                   /\ \A other \in Paths \ {path} :
                          after[other] = before[other]

\* a zip response was unpacked into a file
C24_Witness ==
    /\ fetch_result.op = "get_file_from_url"
    /\ fetch_result.response.content_type = "application/zip"
    /\ fetch_result.response.content = "zip(a,b)"
    /\ fetch_result.file_output_path = "file.zip"
    /\ ~fetch_result.raised
    /\ fetch_result.outcome = "content of a"
    /\ files["file.zip"] = "content of a"

----------------------------------------------------------------------------
(* The extractors *)

\* the children of the element with the tag that was asked for
Matching == findall(xml_element, extracted.tag)

\* C25: for every element and tag the two label extractors have the same
\* language keys, those of the matching children; the list extractor holds,
\* for a language, the texts of the matching children of that language in
\* document order; the entry of the single-valued extractor is the last
\* element of that list.
C25_LabelExtractorsAgree ==
    extracted.op = "extract" =>
        LET single == extracted.as_dict
            lists == extracted.as_dict_of_lists
        IN  /\ DOMAIN single = DOMAIN lists
            /\ DOMAIN lists =
                   {element_get(Matching[i], "lang") : i \in 1..Len(Matching)}
            /\ \A lang \in DOMAIN lists :
                   /\ lists[lang] =
                          MapSeq(element_text, InLanguage(Matching, lang))
                   /\ lists[lang] # <<>>
                   /\ single[lang] = lists[lang][Len(lists[lang])]

\* two English labels: the list has both in order, the dict the second
C25_Witness ==
    /\ extracted.op = "extract"
    /\ extracted.tag = "prefLabel"
    /\ DOMAIN extracted.as_dict = {"en", "fr"}
    /\ extracted.as_dict_of_lists["en"] = <<"tree", "wood">>
    /\ extracted.as_dict["en"] = "wood"

\* C26: extraction does not fail on missing data and yields values of the
\* declared type: get_element_attribute and get_sub_element_as_str give a
\* string for every element, the empty string when the attribute or the tag
\* is absent; get_sub_element_attributes and the label extractors give
\* empty collections when no child matches; parse_dataset gives an empty
\* list for a kind of which the document has no element.
C26_ExtractionYieldsDeclaredTypes ==
    /\ extracted.op = "extract" =>
           /\ extracted.about # None
           /\ "about" \notin DOMAIN xml_element => extracted.about = ""
           /\ extracted.as_str # None
           /\ Matching = <<>> =>
                  /\ extracted.as_str = ""
                  /\ extracted.resources = <<>>
                  /\ DOMAIN extracted.as_dict = {}
                  /\ DOMAIN extracted.as_dict_of_lists = {}
    /\ \A document \in SeqsUpTo(ParseElements, 1) :
           LET parsed == xml_parse_dataset(document)
               none(tag) == \A i \in 1..Len(document) : document[i].tag # tag
           IN  /\ none("ConceptScheme") => parsed.concept_schemes = <<>>
               /\ none("Concept") => parsed.concepts = <<>>
               /\ none("Collection") => parsed.collections = <<>>

----------------------------------------------------------------------------
(* save_concept_scheme_file *)

\* the last call was a save that committed
SaveCommitted ==
    /\ scheme_saved.op = "save_concept_scheme_file"
    /\ ~scheme_saved.raised

\* C27: after save_concept_scheme_file commits, get_concepts_for_scheme of
\* the scheme's name returns one concept per entry of concepts_names, the
\* first entry included, each with the name of its entry.
C27_EveryConceptLinked ==
    SaveCommitted =>
        LET got == get_concepts_for_scheme(scheme_db,
                                           scheme_saved.concept_scheme_name)
            names == scheme_saved.concepts_names
        IN  /\ ~got.raised
            /\ Cardinality(got.value) = Len(names)
            /\ \A i \in 1..Len(names) :
                   \E c \in got.value : c.name = names[i]

\* C28: save_concept_scheme_file raises exactly when a relationship tuple
\* names a concept that is not among concepts_names, and then the database
\* is as before the call: no scheme, concept or relationship of the call
\* is in it.
C28_SaveIsAllOrNothing ==
    scheme_saved.op = "save_concept_scheme_file" =>
        /\ scheme_saved.raised <=>
               \E i \in 1..Len(scheme_saved.relationship_tuples) :
                   LET t == scheme_saved.relationship_tuples[i]
                   IN  \/ t.source_concept
                              \notin Range(scheme_saved.concepts_names)
                       \/ t.destination_concept
                              \notin Range(scheme_saved.concepts_names)
        /\ scheme_saved.raised =>
               /\ scheme_db = scheme_saved.before
               /\ \A cs \in scheme_db.concept_schemes :
                      cs.name # scheme_saved.concept_scheme_name

\* a save with two concepts and a tuple naming an unknown concept raised on
\* a database that holds an earlier scheme
C28_Witness ==
    /\ scheme_saved.op = "save_concept_scheme_file"
    /\ scheme_saved.raised
    /\ scheme_saved.error = "KeyError"
    /\ Len(scheme_saved.concepts_names) = 2
    /\ scheme_db.concept_schemes # {}
    /\ scheme_db.relationships # {}

----------------------------------------------------------------------------
(* The altLabels migration *)

\* two dicts of strings with the same keys and values
SameDict(x, y) ==
    /\ DOMAIN x = DOMAIN y
    /\ \A key \in DOMAIN x : x[key] = y[key]

----------------------------------------------------------------------------
(* The Neo4j import *)

\* C30: after load_services_dataset every parsed semantic relation whose
\* two concepts are nodes is an edge from its source concept to its target
\* concept, labelled with the type of that relation.
C30_EdgeLabelIsOwnType ==
    (neo_loaded.op = "load_services_dataset" /\ neo_loaded.raised = None) =>
        \A i \in 1..Len(neo_loaded.semantic_relations) :
            LET relation == neo_loaded.semantic_relations[i]
            IN  {[label |-> "Concept", iri |-> relation.source_concept_iri],
                 [label |-> "Concept", iri |-> relation.target_concept_iri]}
                    \subseteq graph.nodes
                => [type |-> relation.type,
                    source |-> relation.source_concept_iri,
                    target |-> relation.target_concept_iri] \in graph.edges

====
